---- MODULE Spec2Model ----
(***************************************************************************)
(* Model of the attendance record store and the session manager of         *)
(* src/api/alexa.js.                                                       *)
(*                                                                         *)
(* doc   : the Firestore document attendance/{key} of one user, a function *)
(*         from the field names it carries to their values; the empty      *)
(*         function is the document that does not exist yet (getUserData   *)
(*         returns {} for it).                                             *)
(* now   : the wall clock (new Date()) in clock ticks, non-decreasing.      *)
(* last  : the last operation that ran, with its arguments and its result. *)
(* steps : the number of steps taken so far, which bounds the runs.        *)
(* attrs : the session attributes of the conversation (the dialogue state), *)
(*         a function from the attribute names that are set to their values.*)
(* tz    : the offset of the process's time zone from UTC, in clock ticks; *)
(*         the local calendar fields of a Date are those of UTC plus tz.   *)
(* calls : the store operations in flight, a function from the requests    *)
(*         that have read the document and not yet written it to what they *)
(*         read and were called with.                                      *)
(* credentials : the Firestore collection credentials, a function from the *)
(*         ids of its documents to the documents.                          *)
(*                                                                         *)
(* Strings whose characters the code inspects (session names, codes) are   *)
(* sequences of one-character strings.  The session manager and            *)
(* setDayStatus only compare dates for equality, so their runs take day    *)
(* numbers for dates; the calendar is modelled further down.               *)
(***************************************************************************)
EXTENDS Integers, Sequences, FiniteSets, TLC

VARIABLES doc, now, last, steps, attrs, tz, calls, credentials

vars == <<doc, now, last, steps, attrs, tz, calls, credentials>>

(***************************************************************************)
(* Bounds                                                                  *)
(***************************************************************************)
MaxDate == 2

MaxSteps == 5

Dates == 1..MaxDate

HolidayNames == {"Diwali", "Holiday"}

Statuses == {"present", "absent", "holiday", "not-enrolled"}

\* Session names: Fa / fa differ only in case, "fa!" is another name with the
\* same alphanumeric prefix.
Names == {<<"F", "a">>, <<"f", "a">>, <<"f", "a", "!">>}

\* Values of Math.random().toString(36).substring(2, 6)
Randoms == {<<"x">>, <<"y">>}

\* (startDate, endDate) pairs handed to saveSession
DatePairs == {<<1, 2>>, <<2, 3>>}

(***************************************************************************)
(* String helpers                                                          *)
(***************************************************************************)
UpperChars == <<"A", "B", "C", "D", "E", "F", "G", "H", "I", "J", "K", "L", "M",
                "N", "O", "P", "Q", "R", "S", "T", "U", "V", "W", "X", "Y", "Z">>

LowerChars == <<"a", "b", "c", "d", "e", "f", "g", "h", "i", "j", "k", "l", "m",
                "n", "o", "p", "q", "r", "s", "t", "u", "v", "w", "x", "y", "z">>

DigitChars == <<"0", "1", "2", "3", "4", "5", "6", "7", "8", "9">>

\* the lower-case letter of every upper-case letter
LowerOf == [c \in {UpperChars[i] : i \in 1..26} |->
               LowerChars[CHOOSE i \in 1..26 : UpperChars[i] = c]]

\* the characters [a-z0-9]
AlnumChars == {LowerChars[i] : i \in 1..26} \cup {DigitChars[i] : i \in 1..10}

\* String.prototype.toLowerCase, one character
LowerChar(c) == IF c \in DOMAIN LowerOf THEN LowerOf[c] ELSE c

\* String.prototype.toLowerCase
toLowerCase(s) == [i \in 1..Len(s) |-> LowerChar(s[i])]

\* the character class [a-z0-9]
IsAlnum(c) == c \in AlnumChars

\* String.prototype.substring(0, n)
Prefix(s, n) == SubSeq(s, 1, IF Len(s) < n THEN Len(s) ELSE n)

\* generateSessionCode, with the value of Math.random()... as a parameter
generateSessionCode(sessionName, random) ==
    Prefix(SelectSeq(toLowerCase(sessionName), IsAlnum), 8) \o random

\* every code generateSessionCode can return for the names of the model
Codes == {generateSessionCode(n, r) : n \in Names, r \in Randoms}

\* identifiers a caller can pass to setAlexaPresetSession
Identifiers == Names \cup Codes

(***************************************************************************)
(* The document store                                                      *)
(***************************************************************************)
NoDoc == [f \in {} |-> {}]

\* userData.f || dflt
Field(userData, f, dflt) == IF f \in DOMAIN userData THEN userData[f] ELSE dflt

\* getUserData: the stored data, {} when the document does not exist
getUserData(stored) == stored

\* Firestore's set(updates, {merge: true}) on one field.  The write carries the
\* leaf field paths of the data: a non-empty map value (records) is written key
\* by key, so keys of the stored map that the data lacks stay; an empty map
\* and an array replace the stored value.
MergeField(stored, updates, f) ==
    IF f \notin DOMAIN updates THEN stored[f]
    ELSE IF f = "records" /\ f \in DOMAIN stored /\ DOMAIN updates[f] # {}
    THEN [d \in DOMAIN stored[f] \cup DOMAIN updates[f] |->
             IF d \in DOMAIN updates[f] THEN updates[f][d] ELSE stored[f][d]]
    ELSE updates[f]

\* mutant: a write that replaces the document, set(updates) without merge
updateUserDataOverwrites(stored, updates) ==
    updates

\* updateUserData: docRef.set(updates, { merge: true })
updateUserData(stored, updates) ==
    [f \in DOMAIN stored \cup DOMAIN updates |-> MergeField(stored, updates, f)]

(***************************************************************************)
(* Day status                                                              *)
(***************************************************************************)
NoRecords == [d \in {} |-> TRUE]

\* extraData.holidayName of a call that passes no holiday name
NoHolidayName == ""

\* getDayStatus: the status of a date as the code reads it back
getDayStatus(userData, date) ==
    LET records == Field(userData, "records", NoRecords)
        holidays == Field(userData, "holidays", <<>>)
        notEnrolled == Field(userData, "notEnrolled", <<>>)
    IN  IF date \in DOMAIN records
        THEN (IF records[date] THEN "present" ELSE "absent")
        ELSE IF \E i \in 1..Len(holidays) : holidays[i].date = date
        THEN "holiday"
        ELSE IF \E i \in 1..Len(notEnrolled) : notEnrolled[i] = date
        THEN "not-enrolled"
        ELSE "null"

\* setDayStatus, up to its store write: the updates it hands to updateUserData
\* (updatedAt, a server timestamp nothing reads, is left out)
setDayStatusUpdates(userData, date, status, holidayName) ==
    LET records0 == Field(userData, "records", NoRecords)
        holidays0 == Field(userData, "holidays", <<>>)
        notEnrolled0 == Field(userData, "notEnrolled", <<>>)
        OtherDay(h) == h.date # date
        OtherDate(d) == d # date
        records1 == [d \in DOMAIN records0 \ {date} |-> records0[d]]
        holidays1 == SelectSeq(holidays0, OtherDay)
        notEnrolled1 == SelectSeq(notEnrolled0, OtherDate)
        WithRecord(b) == [d \in DOMAIN records1 \cup {date} |->
                              IF d = date THEN b ELSE records1[d]]
    IN  [records |-> IF status = "present" THEN WithRecord(TRUE)
                     ELSE IF status = "absent" THEN WithRecord(FALSE)
                     ELSE records1,
         holidays |-> IF status = "holiday"
                      THEN Append(holidays1,
                                  [date |-> date,
                                   name |-> IF holidayName = NoHolidayName
                                            THEN "Holiday" ELSE holidayName])
                      ELSE holidays1,
         notEnrolled |-> IF status = "not-enrolled"
                         THEN Append(notEnrolled1, date) ELSE notEnrolled1]

\* setDayStatus(attendanceKey, date, status, { holidayName })
SetDayStatus(date, status, holidayName) ==
    /\ doc' = updateUserData(doc, setDayStatusUpdates(getUserData(doc), date, status, holidayName))
    /\ last' = [op |-> "setDayStatus", date |-> date, status |-> status,
                holidayName |-> holidayName, success |-> TRUE]
    /\ UNCHANGED <<now, attrs, tz, calls, credentials>>

Init ==
    /\ doc = NoDoc
    /\ now = 0
    /\ last = [op |-> "init"]
    /\ steps = 0
    /\ attrs = NoDoc
    /\ calls = NoDoc
    /\ credentials = NoDoc
    /\ tz = 0

\* the record store on its own: any sequence of setDayStatus calls
NextDay ==
    \E date \in Dates, status \in Statuses, holidayName \in HolidayNames \cup {NoHolidayName} :
        /\ status # "holiday" => holidayName = NoHolidayName
        /\ SetDayStatus(date, status, holidayName)
        /\ UNCHANGED steps

SpecDay == Init /\ [][NextDay]_vars

(***************************************************************************)
(* Day status: properties                                                  *)
(***************************************************************************)
InRecords(d) == d \in DOMAIN Field(doc, "records", NoRecords)

InHolidays(d) ==
    \E i \in 1..Len(Field(doc, "holidays", <<>>)) : doc["holidays"][i].date = d

InNotEnrolled(d) ==
    \E i \in 1..Len(Field(doc, "notEnrolled", <<>>)) : doc["notEnrolled"][i] = d

\* C1: after setDayStatus(key, d, s) the date d is in exactly one of records,
\* holidays and notEnrolled, and it is the one that matches s.
C1_ExactlyOneContainer ==
    last.op = "setDayStatus" =>
        LET d == last.date
            s == last.status
        IN  /\ InRecords(d) <=> s \in {"present", "absent"}
            /\ InRecords(d) => (doc["records"][d] <=> s = "present")
            /\ InHolidays(d) <=> s = "holiday"
            /\ InNotEnrolled(d) <=> s = "not-enrolled"

(***************************************************************************)
(* Session manager                                                         *)
(***************************************************************************)
\* Array.prototype.find / findIndex: the first of the indices that pass the
\* test, 0 if none does
FindIndex(passing) ==
    IF passing = {} THEN 0
    ELSE CHOOSE i \in passing : \A j \in passing : i <= j

\* mutant: a selection that leaves the sessions already selected as they are
SelectByCodeKeepsOthers(sessions, code) ==
    [i \in 1..Len(sessions) |->
        [sessions[i] EXCEPT !.isSelected = (sessions[i].isSelected \/ sessions[i].code = code)]]

\* sessions.map(session => ({...session, isSelected: session.code === code}))
SelectByCode(sessions, code) ==
    [i \in 1..Len(sessions) |->
        [sessions[i] EXCEPT !.isSelected = (sessions[i].code = code)]]

\* a clearing that drops the selected sessions instead of unselecting them
ClearSelectedByRemoval(sessions) ==
    LET NotSelected(session) == ~session.isSelected
    IN  SelectSeq(sessions, NotSelected)

\* sessions.map(session => ({...session, isSelected: false}))
ClearSelected(sessions) ==
    [i \in 1..Len(sessions) |-> [sessions[i] EXCEPT !.isSelected = FALSE]]

\* one step of the sort: x, which came after all of sorted, goes behind every
\* element that is not older than it
InsertNewestFirst(sorted, x) ==
    LET k == Cardinality({i \in 1..Len(sorted) : sorted[i].createdAt >= x.createdAt})
    IN  SubSeq(sorted, 1, k) \o <<x>> \o SubSeq(sorted, k + 1, Len(sorted))

\* a save that skips the final sort
SortNewestFirstSkipped(sessions) == sessions

RECURSIVE SortNewestFirst(_)
\* updatedSessions.sort((a, b) => new Date(b.createdAt) - new Date(a.createdAt)),
\* a stable sort
SortNewestFirst(sessions) ==
    IF sessions = <<>> THEN <<>>
    ELSE InsertNewestFirst(SortNewestFirst(SubSeq(sessions, 1, Len(sessions) - 1)),
                           sessions[Len(sessions)])

\* a setAlexaPresetSession that clears the old preset before it looks for the
\* new one, and so writes even when it finds none
setAlexaPresetSessionClearsFirst(userData, sessionIdentifier) ==
    LET sessions == Field(userData, "sessions", <<>>)
        Matches(s) == \/ s.code = sessionIdentifier
                      \/ toLowerCase(s.name) = toLowerCase(sessionIdentifier)
        found == FindIndex({i \in 1..Len(sessions) : Matches(sessions[i])})
    IN  IF Len(sessions) = 0
        THEN [success |-> FALSE, error |-> "No sessions found", found |-> 0,
              updates |-> <<>>]
        ELSE IF found = 0
        THEN [success |-> FALSE, error |-> "Session not found", found |-> 0,
              updates |-> <<[sessions |-> ClearSelected(sessions)]>>]
        ELSE [success |-> TRUE, error |-> "", found |-> found,
              updates |-> <<[sessions |-> SelectByCode(sessions, sessions[found].code)]>>]

\* setAlexaPresetSession up to its store write: the result it returns, the
\* index of the session it found and the updates it writes (none on failure)
setAlexaPresetSession(userData, sessionIdentifier) ==
    LET sessions == Field(userData, "sessions", <<>>)
        Matches(s) == \/ s.code = sessionIdentifier
                      \/ toLowerCase(s.name) = toLowerCase(sessionIdentifier)
        found == FindIndex({i \in 1..Len(sessions) : Matches(sessions[i])})
    IN  IF Len(sessions) = 0
        THEN [success |-> FALSE, error |-> "No sessions found", found |-> 0,
              updates |-> <<>>]
        ELSE IF found = 0
        THEN [success |-> FALSE, error |-> "Session not found", found |-> 0,
              updates |-> <<>>]
        ELSE [success |-> TRUE, error |-> "", found |-> found,
              updates |-> <<[sessions |-> SelectByCode(sessions, sessions[found].code)]>>]

\* clearAlexaPresetSession up to its store write
clearAlexaPresetSession(userData) ==
    [success |-> TRUE,
     updates |-> <<[sessions |-> ClearSelected(Field(userData, "sessions", <<>>))]>>]

\* saveSession up to its store write; random is the value of Math.random()...
\* inside generateSessionCode and createdAt the value of new Date()
saveSession(userData, sessionName, startDate, endDate, setAsPreset, random, createdAt) ==
    LET sessions == Field(userData, "sessions", <<>>)
        sessionCode == generateSessionCode(sessionName, random)
        sessionData == [name |-> sessionName, code |-> sessionCode,
                        startDate |-> startDate, endDate |-> endDate,
                        createdAt |-> createdAt, isSelected |-> setAsPreset]
        Matches(s) == \/ toLowerCase(s.name) = toLowerCase(sessionName)
                      \/ s.code = sessionCode
        existingIndex == FindIndex({i \in 1..Len(sessions) : Matches(sessions[i])})
        updated1 == IF existingIndex # 0
                    THEN [sessions EXCEPT ![existingIndex] = sessionData]
                    ELSE Append(sessions, sessionData)
        updated2 == IF setAsPreset THEN SelectByCode(updated1, sessionCode)
                    ELSE updated1
    IN  [sessionData |-> sessionData, existingIndex |-> existingIndex,
         updates |-> <<[sessions |-> SortNewestFirst(updated2)]>>]

\* the store writes of one operation, in order
RECURSIVE Apply(_, _)
Apply(stored, updates) ==
    IF updates = <<>> THEN stored
    ELSE Apply(updateUserData(stored, updates[1]), SubSeq(updates, 2, Len(updates)))

SetAlexaPresetSession(sessionIdentifier) ==
    LET r == setAlexaPresetSession(getUserData(doc), sessionIdentifier)
    IN  /\ doc' = Apply(doc, r.updates)
        /\ last' = [op |-> "setAlexaPresetSession", id |-> sessionIdentifier,
                    success |-> r.success, error |-> r.error, found |-> r.found,
                    writes |-> Len(r.updates),
                    again |-> /\ last.op = "setAlexaPresetSession"
                              /\ last.id = sessionIdentifier]
        /\ UNCHANGED <<now, attrs, tz, calls, credentials>>

ClearAlexaPresetSession ==
    LET r == clearAlexaPresetSession(getUserData(doc))
    IN  /\ doc' = Apply(doc, r.updates)
        /\ last' = [op |-> "clearAlexaPresetSession", success |-> r.success,
                    writes |-> Len(r.updates),
                    hadPreset |-> \E i \in 1..Len(Field(doc, "sessions", <<>>)) :
                                      doc["sessions"][i].isSelected]
        /\ UNCHANGED <<now, attrs, tz, calls, credentials>>

SaveSession(sessionName, startDate, endDate, setAsPreset, random, createdAt) ==
    LET r == saveSession(getUserData(doc), sessionName, startDate, endDate,
                         setAsPreset, random, createdAt)
    IN  /\ doc' = Apply(doc, r.updates)
        /\ UNCHANGED <<now, attrs, tz, calls, credentials>>
        /\ last' = [op |-> "saveSession", name |-> sessionName,
                    startDate |-> startDate, endDate |-> endDate,
                    setAsPreset |-> setAsPreset, code |-> r.sessionData.code,
                    createdAt |-> createdAt, existingIndex |-> r.existingIndex,
                    writes |-> Len(r.updates)]

\* time passes between two calls
Tick ==
    /\ now' = now + 1
    /\ UNCHANGED <<doc, last, attrs, tz, calls, credentials>>

\* one more step of a bounded run
Step ==
    /\ steps < MaxSteps
    /\ steps' = steps + 1

\* the session manager on its own: any sequence of its three mutators under a
\* non-decreasing clock
NextSessions ==
    \/ \E sessionName \in Names, dates \in DatePairs, setAsPreset \in BOOLEAN,
          random \in Randoms :
           Step /\ SaveSession(sessionName, dates[1], dates[2], setAsPreset, random, now)
    \/ Step /\ Tick
    \/ \E sessionIdentifier \in Identifiers :
           Step /\ SetAlexaPresetSession(sessionIdentifier)
    \/ Step /\ ClearAlexaPresetSession

SpecSessions == Init /\ [][NextSessions]_vars

(***************************************************************************)
(* Session manager: properties                                             *)
(***************************************************************************)
Sessions == Field(doc, "sessions", <<>>)

Selected(sessions) == {i \in 1..Len(sessions) : sessions[i].isSelected}

SameName(a, b) == toLowerCase(a) = toLowerCase(b)

\* s and t are the same session up to the isSelected flag
SameButSelected(s, t) == [s EXCEPT !.isSelected = t.isSelected] = t

\* C2: at most one session of the stored list has isSelected = true.
C2_AtMostOnePreset == Cardinality(Selected(Sessions)) <= 1

\* C3: when setAlexaPresetSession succeeds, exactly the session it matched has
\* isSelected = true afterwards, and the list has the same length, order and
\* other fields as before.
C3_PresetIsExactlyTheMatch ==
    [][\A id \in Identifiers :
          (SetAlexaPresetSession(id) /\ last'.success) =>
              /\ Len(Sessions') = Len(Sessions)
              /\ Selected(Sessions') = {last'.found}
              /\ \A i \in 1..Len(Sessions) : SameButSelected(Sessions'[i], Sessions[i])]_vars

\* C4: setAlexaPresetSession fails with 'No sessions found' when the list is
\* missing or empty and with 'Session not found' when no session matches the
\* identifier by code or case-insensitive name; a failed call writes nothing
\* and leaves the stored document as it was.
C4_FailureWritesNothing ==
    [][\A id \in Identifiers :
          SetAlexaPresetSession(id) =>
              /\ Len(Sessions) = 0 =>
                     ~last'.success /\ last'.error = "No sessions found"
              /\ (/\ Len(Sessions) > 0
                  /\ \A i \in 1..Len(Sessions) :
                         Sessions[i].code # id /\ ~SameName(Sessions[i].name, id)) =>
                     ~last'.success /\ last'.error = "Session not found"
              /\ ~last'.success => last'.writes = 0 /\ doc' = doc]_vars

\* C4 witness: a call failed with 'Session not found' while a preset was set.
C4_Witness ==
    /\ last.op = "setAlexaPresetSession"
    /\ ~last.success
    /\ last.error = "Session not found"
    /\ Selected(Sessions) # {}

\* C5: calling setAlexaPresetSession a second time in a row with the same
\* identifier leaves the stored list as the first call left it, with exactly
\* one selected session, the target.
C5_PresetIdempotent ==
    [][\A id \in Identifiers :
          (SetAlexaPresetSession(id) /\ last'.again /\ last'.success) =>
              /\ doc' = doc
              /\ Selected(Sessions') = {last'.found}]_vars

\* C6: clearAlexaPresetSession always succeeds and leaves every session with
\* isSelected = false; count, order, names, codes and dates are unchanged.
C6_ClearLeavesNoPreset ==
    [][ClearAlexaPresetSession =>
          /\ last'.success
          /\ "sessions" \in DOMAIN doc'
          /\ Len(Sessions') = Len(Sessions)
          /\ \A i \in 1..Len(Sessions) :
                 /\ ~Sessions'[i].isSelected
                 /\ SameButSelected(Sessions'[i], Sessions[i])]_vars

\* C6 witness: the preset of a list of two sessions was cleared.
C6_Witness ==
    /\ last.op = "clearAlexaPresetSession"
    /\ last.hadPreset
    /\ Len(Sessions) >= 2
    /\ Selected(Sessions) = {}

\* C7: saveSession with a name that matches an existing session's name
\* case-insensitively replaces it: the length is unchanged, exactly one session
\* carries the name and it has the new dates; with a name that matches none and
\* a fresh code the list grows by one.
C7_UpsertByName ==
    [][\A sessionName \in Names, dates \in DatePairs, setAsPreset \in BOOLEAN,
          random \in Randoms :
          SaveSession(sessionName, dates[1], dates[2], setAsPreset, random, now) =>
              LET named == {i \in 1..Len(Sessions) : SameName(Sessions[i].name, sessionName)}
                  named2 == {i \in 1..Len(Sessions') : SameName(Sessions'[i].name, sessionName)}
                  fresh == \A i \in 1..Len(Sessions) :
                               Sessions[i].code # generateSessionCode(sessionName, random)
              IN  /\ named # {} =>
                         /\ Len(Sessions') = Len(Sessions)
                         /\ Cardinality(named2) = 1
                         /\ \A i \in named2 : /\ Sessions'[i].startDate = dates[1]
                                              /\ Sessions'[i].endDate = dates[2]
                  /\ (named = {} /\ fresh) => Len(Sessions') = Len(Sessions) + 1]_vars

\* C8: when the name matches an existing session case-insensitively, that
\* session has the same code after saveSession as before.
C8_CodeStableAcrossResave ==
    [][\A sessionName \in Names, dates \in DatePairs, setAsPreset \in BOOLEAN,
          random \in Randoms :
          SaveSession(sessionName, dates[1], dates[2], setAsPreset, random, now) =>
              \A i \in 1..Len(Sessions) :
                  SameName(Sessions[i].name, sessionName) =>
                      \E j \in 1..Len(Sessions') :
                          /\ SameName(Sessions'[j].name, sessionName)
                          /\ Sessions'[j].code = Sessions[i].code]_vars

\* C9: after saveSession with setAsPreset = true the saved session is selected
\* and every other session of the stored list is not.
C9_SavedPresetIsTheOnlyOne ==
    (last.op = "saveSession" /\ last.setAsPreset) =>
        \E i \in 1..Len(Sessions) :
            /\ Sessions[i].name = last.name
            /\ Sessions[i].code = last.code
            /\ Sessions[i].createdAt = last.createdAt
            /\ Selected(Sessions) = {i}

\* C10: the stored sessions list is ordered by createdAt, newest first, after
\* any sequence of session mutations.
C10_NewestFirst ==
    \A i, j \in 1..Len(Sessions) :
        i < j => Sessions[i].createdAt >= Sessions[j].createdAt

\* C10 witness: a new session was appended and the sort moved it in front of
\* an older one.
C10_Witness ==
    /\ last.op = "saveSession"
    /\ last.existingIndex = 0
    /\ Len(Sessions) >= 2
    /\ Sessions[1].name = last.name
    /\ Sessions[1].createdAt > Sessions[2].createdAt

(***************************************************************************)
(* SelectSessionIntent                                                     *)
(***************************************************************************)
\* the value of a slot the request does not carry
NoSlot == <<>>

\* Session names of the select runs: "fax" is a name that is also a code
\* generateSessionCode returns for the name Fa.
SelectNames == {<<"F", "a">>, <<"f", "a", "!">>, <<"f", "a", "x">>}

\* the one date range of the sessions of the select runs
SelectDates == <<1, 2>>

\* what the user can say for the sessionName slot
SelectIdentifiers ==
    SelectNames \cup {generateSessionCode(n, r) : n \in SelectNames, r \in Randoms}

\* SelectSessionIntentHandler.handle up to its store writes: the outcome it
\* speaks, the index of the session it names, the codes it lists and the
\* updates of the setAlexaPresetSession call it makes
selectSession(userData, sessionName) ==
    LET sessions == Field(userData, "sessions", <<>>)
        exactCodeMatch == FindIndex({i \in 1..Len(sessions) : sessions[i].code = sessionName})
        IsNamed(s) == toLowerCase(s.name) = toLowerCase(sessionName)
        nameMatches == SelectSeq(sessions, IsNamed)
        firstNamed == FindIndex({i \in 1..Len(sessions) : IsNamed(sessions[i])})
    IN  IF sessionName = NoSlot
        THEN [outcome |-> IF Len(sessions) = 0 THEN "no sessions" ELSE "list",
              matched |-> 0, codes |-> <<>>, updates |-> <<>>]
        ELSE IF exactCodeMatch # 0
        THEN [outcome |-> "selected", matched |-> exactCodeMatch, codes |-> <<>>,
              updates |-> setAlexaPresetSession(userData, sessions[exactCodeMatch].code).updates]
        ELSE IF Len(nameMatches) = 1
        THEN [outcome |-> "selected", matched |-> firstNamed, codes |-> <<>>,
              updates |-> setAlexaPresetSession(userData, nameMatches[1].code).updates]
        ELSE IF Len(nameMatches) > 1
        THEN [outcome |-> "ambiguous", matched |-> 0,
              codes |-> [i \in 1..Len(nameMatches) |-> nameMatches[i].code],
              updates |-> <<>>]
        ELSE [outcome |-> "not found", matched |-> 0, codes |-> <<>>, updates |-> <<>>]

SelectSessionIntent(sessionName) ==
    LET r == selectSession(getUserData(doc), sessionName)
    IN  /\ doc' = Apply(doc, r.updates)
        /\ last' = [op |-> "SelectSessionIntent", sessionName |-> sessionName,
                    outcome |-> r.outcome, matched |-> r.matched, codes |-> r.codes,
                    writes |-> Len(r.updates)]
        /\ UNCHANGED <<now, attrs, tz, calls, credentials>>

\* selecting among saved sessions: saveSession, SelectSessionIntent and
\* setAlexaPresetSession in any order
NextSelect ==
    \/ \E sessionName \in SelectNames, setAsPreset \in BOOLEAN, random \in Randoms :
           Step /\ SaveSession(sessionName, SelectDates[1], SelectDates[2], setAsPreset,
                               random, now)
    \/ \E sessionName \in SelectIdentifiers \cup {NoSlot} :
           Step /\ SelectSessionIntent(sessionName)
    \/ \E sessionIdentifier \in SelectIdentifiers :
           Step /\ SetAlexaPresetSession(sessionIdentifier)

SpecSelect == Init /\ [][NextSelect]_vars

\* the sessions of the stored list with the given code / the given name
WithCode(sessions, id) == {i \in 1..Len(sessions) : sessions[i].code = id}

WithName(sessions, id) == {i \in 1..Len(sessions) : SameName(sessions[i].name, id)}

\* C11: SelectSessionIntent makes the session whose code is the identifier the
\* preset; otherwise the one session whose name matches; and when two or more
\* names match it lists the codes of all of them and writes nothing.
C11_SelectResolvesCodeThenName ==
    [][\A id \in SelectIdentifiers :
          SelectSessionIntent(id) =>
              /\ \A i \in WithCode(Sessions, id) : Selected(Sessions') = {i}
              /\ WithCode(Sessions, id) = {} =>
                     /\ \A i \in WithName(Sessions, id) :
                            WithName(Sessions, id) = {i} => Selected(Sessions') = {i}
                     /\ Cardinality(WithName(Sessions, id)) >= 2 =>
                            /\ last'.outcome = "ambiguous"
                            /\ {last'.codes[k] : k \in 1..Len(last'.codes)}
                                   = {Sessions[i].code : i \in WithName(Sessions, id)}
                            /\ last'.writes = 0
                            /\ doc' = doc]_vars

\* C12: when the identifier is the code of one session and the name of another,
\* setAlexaPresetSession makes the session with that code the preset.
C12_PresetCodeBeforeName ==
    [][\A id \in SelectIdentifiers :
          SetAlexaPresetSession(id) =>
              \A i \in WithCode(Sessions, id) :
                  (WithName(Sessions, id) \ {i}) # {} => Selected(Sessions') = {i}]_vars

(***************************************************************************)
(* Dates                                                                   *)
(*                                                                         *)
(* A Date object is its time value: clock ticks since 1970-01-01T00:00Z.   *)
(* A date string "YYYY-MM-DD" is the triple <<year, month, day>>; padded   *)
(* strings compare as the triples do.  The time zone has a fixed offset    *)
(* (no daylight saving).                                                   *)
(***************************************************************************)
\* clock ticks in a day: one tick is six hours
TicksPerDay == 4

\* the time-zone offsets of the process: UTC-6, UTC, UTC+6
Offsets == {-1, 0, 1}

\* the value of a date field that is not there (undefined)
NoDate == <<>>

\* days from 1970-01-01 to a civil date, and back (proleptic Gregorian)
DaysFromCivil(year, month, day) ==
    LET y == IF month <= 2 THEN year - 1 ELSE year
        era == y \div 400
        yoe == y - era * 400
        mp == (month + 9) % 12
        doy == (153 * mp + 2) \div 5 + day - 1
        doe == yoe * 365 + yoe \div 4 - yoe \div 100 + doy
    IN  era * 146097 + doe - 719468

CivilFromDays(z) ==
    LET z1 == z + 719468
        era == z1 \div 146097
        doe == z1 - era * 146097
        yoe == (doe - doe \div 1460 + doe \div 36524 - doe \div 146096) \div 365
        doy == doe - (365 * yoe + yoe \div 4 - yoe \div 100)
        mp == (5 * doy + 2) \div 153
        day == doy - (153 * mp + 2) \div 5 + 1
        month == IF mp < 10 THEN mp + 3 ELSE mp - 9
    IN  <<IF month <= 2 THEN yoe + era * 400 + 1 ELSE yoe + era * 400, month, day>>

\* new Date("YYYY-MM-DD"): a date-only string is midnight UTC of that day
NewDate(dateStr) == DaysFromCivil(dateStr[1], dateStr[2], dateStr[3]) * TicksPerDay

\* the local calendar day of a Date, in days since 1970-01-01
LocalDay(date, offset) == (date + offset) \div TicksPerDay

\* Date.prototype.getDay: the weekday in local time, 0 = Sunday
getDay(date, offset) == (LocalDay(date, offset) + 4) % 7

\* getFormattedDate(date): year, month and day of the Date in local time
getFormattedDate(date, offset) == CivilFromDays(LocalDay(date, offset))

\* date.toISOString().split('T')[0]: year, month and day in UTC
toISODate(date) == CivilFromDays(date \div TicksPerDay)

\* getLocalDate().getUTCFullYear()
getUTCFullYear(date) == toISODate(date)[1]

\* new Date(year, month, 0).getDate(): the day before the first of the next
\* month
DaysInMonth(year, month) ==
    LET next == IF month = 12 THEN DaysFromCivil(year + 1, 1, 1)
                ELSE DaysFromCivil(year, month + 1, 1)
    IN  CivilFromDays(next - 1)[3]

\* dateStr > today on padded date strings
DateAfter(a, b) ==
    \/ a[1] > b[1]
    \/ a[1] = b[1] /\ a[2] > b[2]
    \/ a[1] = b[1] /\ a[2] = b[2] /\ a[3] > b[3]

isNonWorkingDay(dateStr, userData, offset) ==
    LET dayOfWeek == getDay(NewDate(dateStr), offset)
        weeklyDaysOff == Field(userData, "weeklyDaysOff", <<>>)
    IN  \/ dayOfWeek = 0
        \/ \E i \in 1..Len(weeklyDaysOff) : weeklyDaysOff[i] = dayOfWeek

(***************************************************************************)
(* Attendance calculations                                                 *)
(***************************************************************************)
\* userData.holidays && userData.holidays.some(h => h.date === dateStr)
isHoliday(userData, dateStr) ==
    \E i \in 1..Len(Field(userData, "holidays", <<>>)) : userData["holidays"][i].date = dateStr

\* userData.notEnrolled && userData.notEnrolled.includes(dateStr)
isNotEnrolled(userData, dateStr) ==
    \E i \in 1..Len(Field(userData, "notEnrolled", <<>>)) : userData["notEnrolled"][i] = dateStr

\* userData.records && userData.records[dateStr] === true
isPresent(userData, dateStr) ==
    /\ dateStr \in DOMAIN Field(userData, "records", NoRecords)
    /\ userData["records"][dateStr] = TRUE

\* one pass of either loop body over a date that is not skipped for being
\* after today: the counters after the pass
CountDay(counts, userData, dateStr, offset) ==
    IF \/ isNonWorkingDay(dateStr, userData, offset)
       \/ isHoliday(userData, dateStr)
       \/ isNotEnrolled(userData, dateStr)
    THEN counts
    ELSE [presentDays |-> counts.presentDays + (IF isPresent(userData, dateStr) THEN 1 ELSE 0),
          totalWorkingDays |-> counts.totalWorkingDays + 1]

NoDays == [presentDays |-> 0, totalWorkingDays |-> 0]

\* the pairs below 200 working days whose quotient times 100, computed in
\* doubles, falls just under the half the exact value sits on
DoubleBelowHalf ==
    {<<23, 40>>, <<46, 80>>, <<69, 120>>, <<92, 160>>,
     <<29, 200>>, <<57, 200>>, <<113, 200>>, <<115, 200>>}

\* Math.round((presentDays / totalWorkingDays) * 100): floor(x + 1/2) of the
\* double x
MathRound(presentDays, totalWorkingDays) ==
    IF <<presentDays, totalWorkingDays>> \in DoubleBelowHalf
    THEN (100 * presentDays) \div totalWorkingDays
    ELSE (200 * presentDays + totalWorkingDays) \div (2 * totalWorkingDays)

\* totalWorkingDays > 0 ? Math.round(...) : 0
percentage(counts) ==
    IF counts.totalWorkingDays > 0
    THEN MathRound(counts.presentDays, counts.totalWorkingDays)
    ELSE 0

\* calculateMonthlyAttendance at the time `date`: the percentage it returns,
\* with the two counters it is computed from
calculateMonthlyAttendance(userData, yearMonth, date, offset) ==
    LET year == yearMonth[1]
        month == yearMonth[2]
        daysInMonth == DaysInMonth(year, month)
        today == getFormattedDate(date, offset)
        counts[day \in 0..daysInMonth] ==
            IF day = 0 THEN NoDays
            ELSE IF DateAfter(<<year, month, day>>, today) THEN counts[day - 1]
            ELSE CountDay(counts[day - 1], userData, <<year, month, day>>, offset)
    IN  [percentage |-> percentage(counts[daysInMonth]),
         presentDays |-> counts[daysInMonth].presentDays,
         totalWorkingDays |-> counts[daysInMonth].totalWorkingDays]

\* the labels of a result that names no session
CurrentSession ==
    <<"c", "u", "r", "r", "e", "n", "t", " ", "s", "e", "s", "s", "i", "o", "n">>

CurrentYear == <<"c", "u", "r", "r", "e", "n", "t", " ", "y", "e", "a", "r">>

\* the window and label calculateSessionAttendance settles on
sessionWindow(userData, sessionName, date, offset) ==
    LET sessions == Field(userData, "sessions", <<>>)
        selectedSession == FindIndex({i \in 1..Len(sessions) : sessions[i].isSelected = TRUE})
        w1 == IF selectedSession # 0
              THEN [startDate |-> Field(sessions[selectedSession], "startDate", NoDate),
                    endDate |-> IF Field(sessions[selectedSession], "endDate", NoDate) = NoDate
                                THEN getFormattedDate(date, offset)
                                ELSE sessions[selectedSession].endDate,
                    sessionUsed |-> IF sessions[selectedSession].name = <<>>
                                    THEN CurrentSession
                                    ELSE sessions[selectedSession].name]
              ELSE [startDate |-> NoDate, endDate |-> NoDate, sessionUsed |-> CurrentSession]
        session == FindIndex({i \in 1..Len(sessions) :
                                 \/ toLowerCase(sessions[i].name) = toLowerCase(sessionName)
                                 \/ sessions[i].code = sessionName})
        w2 == IF (w1.startDate = NoDate \/ w1.endDate = NoDate)
                 /\ sessionName # NoSlot /\ session # 0
              THEN [startDate |-> Field(sessions[session], "startDate", NoDate),
                    endDate |-> Field(sessions[session], "endDate", NoDate),
                    sessionUsed |-> sessions[session].name]
              ELSE w1
        currentYear == getUTCFullYear(date)
    IN  IF w2.startDate = NoDate \/ w2.endDate = NoDate
        THEN [startDate |-> <<currentYear, 1, 1>>, endDate |-> <<currentYear, 12, 31>>,
              sessionUsed |-> CurrentYear]
        ELSE w2

\* mutant: the session loop running one day past today
calculateSessionAttendancePastToday(userData, sessionName, date, offset) ==
    LET w == sessionWindow(userData, sessionName, date, offset)
        end == NewDate(w.endDate)
        today == NewDate(getFormattedDate(date, offset)) + TicksPerDay
        counts[currentDate \in Int] ==
            IF ~(currentDate <= end /\ currentDate <= today) THEN NoDays
            ELSE CountDay(counts[currentDate + TicksPerDay], userData,
                          toISODate(currentDate), offset)
        result == counts[NewDate(w.startDate)]
    IN  [percentage |-> percentage(result), sessionName |-> w.sessionUsed,
         presentDays |-> result.presentDays, totalWorkingDays |-> result.totalWorkingDays]

\* calculateSessionAttendance at the time `date`; currentDate.setDate(
\* currentDate.getDate() + 1) moves the Date one day on
calculateSessionAttendance(userData, sessionName, date, offset) ==
    LET w == sessionWindow(userData, sessionName, date, offset)
        end == NewDate(w.endDate)
        today == NewDate(getFormattedDate(date, offset))
        counts[currentDate \in Int] ==
            IF ~(currentDate <= end /\ currentDate <= today) THEN NoDays
            ELSE CountDay(counts[currentDate + TicksPerDay], userData,
                          toISODate(currentDate), offset)
        result == counts[NewDate(w.startDate)]
    IN  [percentage |-> percentage(result), sessionName |-> w.sessionUsed,
         presentDays |-> result.presentDays, totalWorkingDays |-> result.totalWorkingDays]

(***************************************************************************)
(* The calculators on stored documents                                     *)
(***************************************************************************)
\* the dates the documents of the calculator runs have entries for:
\* Sunday 2023-01-01, Monday 2023-01-02, Tuesday 2023-01-03
CalcDaySeq == <<<<2023, 1, 1>>, <<2023, 1, 2>>, <<2023, 1, 3>>>>

CalcDays == {CalcDaySeq[i] : i \in 1..Len(CalcDaySeq)}

\* what a document holds for a date: nothing, or one of the four statuses
Marks == {"none"} \cup Statuses

\* the values of weeklyDaysOff: the field missing, no day, Tuesday
Missing == "missing"

WeeklyDaysOffs == {Missing, <<>>, <<2>>}

\* the document whose dates carry the given marks
MarkedDoc(marks, weeklyDaysOff, sessions) ==
    LET IsHoliday(d) == marks[d] = "holiday"
        IsNotEnrolled(d) == marks[d] = "not-enrolled"
        days == SelectSeq(CalcDaySeq, IsHoliday)
    IN  [records |-> [d \in {e \in DOMAIN marks : marks[e] \in {"present", "absent"}} |->
                         marks[d] = "present"],
         holidays |-> [i \in 1..Len(days) |-> [date |-> days[i], name |-> "Holiday"]],
         notEnrolled |-> SelectSeq(CalcDaySeq, IsNotEnrolled)]
        @@ (IF weeklyDaysOff = Missing THEN NoDoc ELSE [weeklyDaysOff |-> weeklyDaysOff])
        @@ (IF sessions = <<>> THEN NoDoc ELSE [sessions |-> sessions])

\* noon UTC of a date
Noon(dateStr) == NewDate(dateStr) + TicksPerDay \div 2

\* a session that ends on 2023-01-03 and an ongoing one
SessionA(isSelected) ==
    [name |-> <<"F", "a">>, code |-> <<"f", "a", "x">>, startDate |-> <<2023, 1, 1>>,
     endDate |-> <<2023, 1, 3>>, isSelected |-> isSelected, createdAt |-> 0]

SessionB(isSelected) ==
    [name |-> <<"f", "a", "!">>, code |-> <<"f", "a", "y">>, startDate |-> <<2023, 1, 2>>,
     isSelected |-> isSelected, createdAt |-> 0]

SessionLists ==
    {<<SessionA(FALSE)>>, <<SessionA(TRUE)>>, <<SessionB(FALSE)>>, <<SessionB(TRUE)>>,
     <<SessionA(FALSE), SessionB(FALSE)>>, <<SessionA(TRUE), SessionB(FALSE)>>,
     <<SessionA(FALSE), SessionB(TRUE)>>}

\* the Term1 document: Monday 2024-01-01 to Friday 2024-01-05 marked present,
\* absent, holiday, present, absent
Term1 ==
    [name |-> <<"T", "e", "r", "m", "1">>, code |-> <<"t", "e", "r", "m", "1", "a", "b", "1", "2">>,
     startDate |-> <<2024, 1, 1>>, endDate |-> <<2024, 1, 5>>, isSelected |-> TRUE,
     createdAt |-> 0]

Term1Doc ==
    [records |-> (<<2024, 1, 1>> :> TRUE) @@ (<<2024, 1, 2>> :> FALSE)
                 @@ (<<2024, 1, 4>> :> TRUE) @@ (<<2024, 1, 5>> :> FALSE),
     holidays |-> <<[date |-> <<2024, 1, 3>>, name |-> "New Year"]>>,
     notEnrolled |-> <<>>,
     sessions |-> <<Term1>>]

\* the documents, times and time zones the calculators are applied to
InitCalc ==
    /\ \/ \E marks \in [CalcDays -> Marks], weeklyDaysOff \in WeeklyDaysOffs :
              /\ doc = MarkedDoc(marks, weeklyDaysOff, <<>>)
              /\ now \in {Noon(d) : d \in CalcDays}
       \/ \E marks \in [CalcDays -> {"none", "present", "holiday"}],
             weeklyDaysOff \in {Missing, <<2>>}, sessions \in SessionLists :
              /\ doc = MarkedDoc(marks, weeklyDaysOff, sessions)
              /\ now \in {Noon(d) : d \in CalcDays}
       \/ /\ doc = Term1Doc
          /\ now \in {Noon(<<2024, 1, 5>>), Noon(<<2024, 1, 8>>)}
    /\ tz \in Offsets
    /\ last = [op |-> "init"]
    /\ steps = 0
    /\ attrs = NoDoc
    /\ calls = NoDoc
    /\ credentials = NoDoc

\* the months asked about, and what the user can say for a session
YearMonths == {<<2023, 1>>, <<2023, 2>>, <<2024, 1>>}

SessionHints == {NoSlot, <<"f", "a">>, <<"f", "a", "y">>}

CalculateMonthlyAttendance(yearMonth) ==
    LET r == calculateMonthlyAttendance(getUserData(doc), yearMonth, now, tz)
    IN  /\ last' = [op |-> "calculateMonthlyAttendance", yearMonth |-> yearMonth,
                    result |-> r.percentage, presentDays |-> r.presentDays,
                    totalWorkingDays |-> r.totalWorkingDays]
        /\ UNCHANGED <<doc, now, steps, attrs, tz, calls, credentials>>

\* calculateSessionAttendance; last keeps, with the result, the startDate and
\* endDate the loop runs over
CalculateSessionAttendance(sessionName) ==
    /\ last' = [op |-> "calculateSessionAttendance", hint |-> sessionName,
                startDate |-> sessionWindow(getUserData(doc), sessionName, now, tz).startDate,
                endDate |-> sessionWindow(getUserData(doc), sessionName, now, tz).endDate,
                result |-> calculateSessionAttendance(getUserData(doc), sessionName, now, tz)]
    /\ UNCHANGED <<doc, now, steps, attrs, tz, calls, credentials>>

IsNonWorkingDay(dateStr) ==
    /\ last' = [op |-> "isNonWorkingDay", dateStr |-> dateStr,
                result |-> isNonWorkingDay(dateStr, getUserData(doc), tz)]
    /\ UNCHANGED <<doc, now, steps, attrs, tz, calls, credentials>>

NextCalc ==
    \/ \E yearMonth \in YearMonths : CalculateMonthlyAttendance(yearMonth)
    \/ \E sessionName \in SessionHints : CalculateSessionAttendance(sessionName)
    \/ \E dateStr \in CalcDays : IsNonWorkingDay(dateStr)

SpecCalc == InitCalc /\ [][NextCalc]_vars

(***************************************************************************)
(* The calculators: properties                                             *)
(***************************************************************************)
\* the weekday of a civil date, 0 = Sunday (Sakamoto's method)
DayOfWeek(dateStr) ==
    LET t == <<0, 3, 2, 5, 0, 3, 5, 1, 4, 6, 2, 4>>
        y == IF dateStr[2] < 3 THEN dateStr[1] - 1 ELSE dateStr[1]
    IN  (y + y \div 4 - y \div 100 + y \div 400 + t[dateStr[2]] + dateStr[3]) % 7

IsLeapYear(year) == year % 4 = 0 /\ (year % 100 # 0 \/ year % 400 = 0)

MonthLength(year, month) ==
    IF month = 2 THEN (IF IsLeapYear(year) THEN 29 ELSE 28)
    ELSE IF month \in {4, 6, 9, 11} THEN 30 ELSE 31

\* today's date, as the user's calendar has it
Today == getFormattedDate(now, tz)

DaysOff == {Field(doc, "weeklyDaysOff", <<>>)[i] : i \in 1..Len(Field(doc, "weeklyDaysOff", <<>>))}

\* a date the stored document makes a working day
Working(d) ==
    /\ DayOfWeek(d) # 0
    /\ DayOfWeek(d) \notin DaysOff
    /\ ~InHolidays(d)
    /\ ~InNotEnrolled(d)

RecordedPresent(d) == InRecords(d) /\ doc["records"][d] = TRUE

\* the dates of a month up to today, and of a window of dates
MonthUpToToday(yearMonth) ==
    {d \in {<<yearMonth[1], yearMonth[2], day>> : day \in 1..MonthLength(yearMonth[1], yearMonth[2])} :
        ~DateAfter(d, Today)}

Window(startDate, endDate) ==
    {CivilFromDays(k) : k \in DaysFromCivil(startDate[1], startDate[2], startDate[3])
                                ..DaysFromCivil(endDate[1], endDate[2], endDate[3])}

\* the integer nearest to 100 * p / w, halves going up
HalfUp(p, w) == CHOOSE r \in 0..100 : 2 * r * w - w <= 200 * p /\ 200 * p < 2 * r * w + w

\* C13: calculateMonthlyAttendance returns exactly 0 when no day of the month
\* up to today is a working day, whatever the records hold.
C13_NoWorkingDayGivesZero ==
    last.op = "calculateMonthlyAttendance" =>
        ({d \in MonthUpToToday(last.yearMonth) : Working(d)} = {} => last.result = 0)

\* C14: with W the working days of the month up to today and P the days of W
\* recorded present, calculateMonthlyAttendance returns 100 * P / W rounded
\* half-up whenever W is not empty.
C14_MonthlyEqualsReference ==
    last.op = "calculateMonthlyAttendance" =>
        LET W == {d \in MonthUpToToday(last.yearMonth) : Working(d)}
            P == {d \in W : RecordedPresent(d)}
        IN  W # {} => last.result = HalfUp(Cardinality(P), Cardinality(W))

\* the sessions of the stored list the hint of the last calculation matches
HintMatches ==
    {i \in 1..Len(Sessions) :
        /\ last.hint # NoSlot
        /\ SameName(Sessions[i].name, last.hint) \/ Sessions[i].code = last.hint}

\* the last calculation ran over the window of session s, ongoing sessions
\* ending today, and is labelled with its name
RanOver(s) ==
    /\ last.startDate = s.startDate
    /\ last.endDate = Field(s, "endDate", Today)
    /\ last.result.sessionName = s.name

\* C15: calculateSessionAttendance runs over the window of the selected
\* session if there is one, whatever the hint; otherwise over the window of a
\* session matching the hint by case-insensitive name or exact code; otherwise
\* over January 1 to December 31 of the current year, labelled 'current year'.
C15_WindowPriority ==
    last.op = "calculateSessionAttendance" =>
        IF Selected(Sessions) # {}
        THEN \E i \in Selected(Sessions) : RanOver(Sessions[i])
        ELSE IF HintMatches # {}
        THEN \E i \in HintMatches : RanOver(Sessions[i])
        ELSE /\ last.startDate = <<Today[1], 1, 1>>
             /\ last.endDate = <<Today[1], 12, 31>>
             /\ last.result.sessionName = CurrentYear

\* the document without its entries dated after today
UpToToday(userData) ==
    LET NotAfter(d) == ~DateAfter(d, Today)
        HolidayNotAfter(h) == ~DateAfter(h.date, Today)
    IN  [f \in DOMAIN userData |->
            IF f = "records"
            THEN [d \in {e \in DOMAIN userData[f] : NotAfter(e)} |-> userData[f][d]]
            ELSE IF f = "holidays" THEN SelectSeq(userData[f], HolidayNotAfter)
            ELSE IF f = "notEnrolled" THEN SelectSeq(userData[f], NotAfter)
            ELSE userData[f]]

\* C16: when the window's endDate is after today, calculateSessionAttendance
\* counts no day after today: its result is the one it gives without the
\* entries dated after today, and totalWorkingDays is at most the number of
\* dates from startDate to today.
C16_ClampedToToday ==
    (last.op = "calculateSessionAttendance" /\ DateAfter(last.endDate, Today)) =>
        /\ last.result = calculateSessionAttendance(UpToToday(doc), last.hint, now, tz)
        /\ last.result.totalWorkingDays <= Cardinality(Window(last.startDate, Today))

\* a calculation over a window that ends after today, with a working day up to
\* today and a present record after today inside the window
C16_Witness ==
    /\ last.op = "calculateSessionAttendance"
    /\ last.result.sessionName = <<"F", "a">>
    /\ DateAfter(last.endDate, Today)
    /\ last.result.totalWorkingDays > 0
    /\ \E d \in Window(last.startDate, last.endDate) :
           DateAfter(d, Today) /\ RecordedPresent(d) /\ Working(d)

\* C17: when calculateSessionAttendance resolves to a session without endDate,
\* through isSelected or through the hint, it runs from the session's
\* startDate to today and labels the result with the session's name.
C17_OngoingEndsToday ==
    last.op = "calculateSessionAttendance" =>
        \A i \in 1..Len(Sessions) :
            (/\ "endDate" \notin DOMAIN Sessions[i]
             /\ \/ Selected(Sessions) = {i}
                \/ Selected(Sessions) = {} /\ HintMatches = {i}) =>
                /\ last.startDate = Sessions[i].startDate
                /\ last.endDate = Today
                /\ last.result.sessionName = Sessions[i].name

\* C18: over a window that lies on or before today, totalWorkingDays is the
\* number of working days of the window, presentDays the number of them
\* recorded present, percentage their ratio in percent rounded, 0 without
\* working days; the Term1 document gives 2, 4 and 50.
C18_SessionEqualsReference ==
    (last.op = "calculateSessionAttendance" /\ ~DateAfter(last.endDate, Today)) =>
        LET W == {d \in Window(last.startDate, last.endDate) : Working(d)}
            P == {d \in W : RecordedPresent(d)}
        IN  /\ last.result.totalWorkingDays = Cardinality(W)
            /\ last.result.presentDays = Cardinality(P)
            /\ last.result.percentage =
                   IF W = {} THEN 0 ELSE HalfUp(Cardinality(P), Cardinality(W))
            /\ doc = Term1Doc =>
                   /\ last.result.presentDays = 2
                   /\ last.result.totalWorkingDays = 4
                   /\ last.result.percentage = 50

\* C20: isNonWorkingDay is true for every Sunday whatever weeklyDaysOff is, and
\* for another day exactly when its weekday is in weeklyDaysOff; a calculator
\* whose dates are all Sundays counts no working day.
C20_SundayNeverWorks ==
    /\ last.op = "isNonWorkingDay" =>
           (last.result <=> (DayOfWeek(last.dateStr) = 0 \/ DayOfWeek(last.dateStr) \in DaysOff))
    /\ last.op = "calculateMonthlyAttendance" =>
           ((\A d \in MonthUpToToday(last.yearMonth) : DayOfWeek(d) = 0) =>
                last.totalWorkingDays = 0)
    /\ (last.op = "calculateSessionAttendance" /\ ~DateAfter(last.endDate, Today)) =>
           ((\A d \in Window(last.startDate, last.endDate) : DayOfWeek(d) = 0) =>
                last.result.totalWorkingDays = 0)

(***************************************************************************)
(* MarkPresentIntent and MarkAbsentIntent                                  *)
(***************************************************************************)
\* sessionAttributes with one attribute set
SetAttribute(sessionAttributes, name, value) ==
    [a \in DOMAIN sessionAttributes \cup {name} |->
        IF a = name THEN value ELSE sessionAttributes[a]]

\* mutant: marking over an existing status without asking
markTodayOverwrites(userData, sessionAttributes, newStatus, date, offset) ==
    LET today == getFormattedDate(date, offset)
        existingStatus == getDayStatus(userData, today)
    IN  IF isNonWorkingDay(today, userData, offset)
        THEN [outcome |-> "non-working day", updates |-> <<>>,
              attributes |-> sessionAttributes]
        ELSE IF existingStatus = newStatus
        THEN [outcome |-> "already marked", updates |-> <<>>,
              attributes |-> sessionAttributes]
        ELSE [outcome |-> "marked",
              updates |-> <<setDayStatusUpdates(userData, today, newStatus, NoHolidayName)>>,
              attributes |-> sessionAttributes]

\* mutant: a marking turn that keeps a proposal already pending
markTodayKeepsProposal(userData, sessionAttributes, newStatus, date, offset) ==
    LET today == getFormattedDate(date, offset)
        existingStatus == getDayStatus(userData, today)
    IN  IF isNonWorkingDay(today, userData, offset)
        THEN [outcome |-> "non-working day", updates |-> <<>>,
              attributes |-> sessionAttributes]
        ELSE IF existingStatus = newStatus
        THEN [outcome |-> "already marked", updates |-> <<>>,
              attributes |-> sessionAttributes]
        ELSE IF existingStatus # "null"
        THEN [outcome |-> "confirm change", updates |-> <<>>,
              attributes |-> IF "pendingStatusChange" \in DOMAIN sessionAttributes
                             THEN sessionAttributes
                             ELSE SetAttribute(sessionAttributes, "pendingStatusChange",
                                               [date |-> today, newStatus |-> newStatus,
                                                oldStatus |-> existingStatus])]
        ELSE [outcome |-> "marked",
              updates |-> <<setDayStatusUpdates(userData, today, newStatus, NoHolidayName)>>,
              attributes |-> sessionAttributes]

\* MarkPresentIntentHandler.handle and MarkAbsentIntentHandler.handle, which
\* differ in newStatus only, from the attendance key on: the outcome spoken,
\* the updates written to the store and the session attributes left behind
markToday(userData, sessionAttributes, newStatus, date, offset) ==
    LET today == getFormattedDate(date, offset)
        existingStatus == getDayStatus(userData, today)
    IN  IF isNonWorkingDay(today, userData, offset)
        THEN [outcome |-> "non-working day", updates |-> <<>>,
              attributes |-> sessionAttributes]
        ELSE IF existingStatus = newStatus
        THEN [outcome |-> "already marked", updates |-> <<>>,
              attributes |-> sessionAttributes]
        ELSE IF existingStatus # "null"
        THEN [outcome |-> "confirm change", updates |-> <<>>,
              attributes |-> SetAttribute(sessionAttributes, "pendingStatusChange",
                                          [date |-> today, newStatus |-> newStatus,
                                           oldStatus |-> existingStatus])]
        ELSE [outcome |-> "marked",
              updates |-> <<setDayStatusUpdates(userData, today, newStatus, NoHolidayName)>>,
              attributes |-> sessionAttributes]

MarkIntent(intent, newStatus) ==
    LET r == markToday(getUserData(doc), attrs, newStatus, now, tz)
    IN  /\ doc' = Apply(doc, r.updates)
        /\ attrs' = r.attributes
        /\ last' = [op |-> intent, today |-> getFormattedDate(now, tz),
                    outcome |-> r.outcome, writes |-> Len(r.updates),
                    newStatus |-> newStatus, before |-> attrs]
        /\ UNCHANGED <<now, tz, calls, credentials>>

MarkPresentIntent == MarkIntent("MarkPresentIntent", "present")

MarkAbsentIntent == MarkIntent("MarkAbsentIntent", "absent")

\* the days the marking runs start on: the dates of the calculator runs and
\* Sunday 2024-03-10
MarkDays == CalcDays \cup {<<2024, 3, 10>>}

\* a user with no entries yet, on any of the days, in any of the time zones
InitMark ==
    /\ \E weeklyDaysOff \in WeeklyDaysOffs :
           doc = IF weeklyDaysOff = Missing THEN NoDoc
                 ELSE [records |-> NoRecords, weeklyDaysOff |-> weeklyDaysOff]
    /\ now \in {Noon(d) : d \in MarkDays}
    /\ tz \in Offsets
    /\ last = [op |-> "init"]
    /\ steps = 0
    /\ attrs = NoDoc
    /\ calls = NoDoc
    /\ credentials = NoDoc

\* marking today present or absent while time passes
NextMark ==
    \/ Step /\ MarkPresentIntent
    \/ Step /\ MarkAbsentIntent
    \/ Step /\ Tick

SpecMark == InitMark /\ [][NextMark]_vars

\* today is a Sunday or a weekday of weeklyDaysOff
NonWorkingToday == DayOfWeek(Today) = 0 \/ DayOfWeek(Today) \in DaysOff

\* C19: on a non-working day MarkPresentIntent and MarkAbsentIntent answer with
\* the non-working-day outcome, write nothing to the store, leave the document
\* as it is and set no pendingStatusChange.
C19_NonWorkingDayRejects ==
    [][((MarkPresentIntent \/ MarkAbsentIntent) /\ NonWorkingToday) =>
           /\ last'.outcome = "non-working day"
           /\ last'.writes = 0
           /\ doc' = doc
           /\ attrs' = attrs]_vars

(***************************************************************************)
(* The dialogue: confirmations and session creation                        *)
(*                                                                         *)
(* An attribute assigned undefined is not among the session attributes of  *)
(* the next turn (the response carries them as JSON).  A store call that   *)
(* fails throws before it has written anything.  last keeps, as before,    *)
(* the session attributes the turn started with.                           *)
(***************************************************************************)
\* sessionAttributes.x is truthy
Truthy(sessionAttributes, name) ==
    name \in DOMAIN sessionAttributes /\ sessionAttributes[name] = TRUE

\* delete sessionAttributes.x for each of the names
DeleteAttributes(sessionAttributes, names) ==
    [a \in DOMAIN sessionAttributes \ names |-> sessionAttributes[a]]

\* the attributes of the session-creation flow
CreationFields ==
    {"inSessionCreation", "sessionCreationStep", "pendingSessionName",
     "pendingStartDate", "shouldSetAsPreset"}

\* setAsPreset && (setAsPreset.toLowerCase() === 'yes' ||
\* setAsPreset.toLowerCase() === 'true'), undefined for a missing slot
shouldSetAsPreset(setAsPreset) ==
    \/ toLowerCase(setAsPreset) = <<"y", "e", "s">>
    \/ toLowerCase(setAsPreset) = <<"t", "r", "u", "e">>

\* sessionAttributes.shouldSetAsPreset = shouldSetAsPreset
SetShouldSetAsPreset(sessionAttributes, setAsPreset) ==
    IF setAsPreset = NoSlot
    THEN DeleteAttributes(sessionAttributes, {"shouldSetAsPreset"})
    ELSE SetAttribute(sessionAttributes, "shouldSetAsPreset", shouldSetAsPreset(setAsPreset))

\* mutant: a holiday turn that overwrites the status today has
markHolidayOverwrites(userData, sessionAttributes, holidayName, date, offset) ==
    LET today == getFormattedDate(date, offset)
        existingStatus == getDayStatus(userData, today)
    IN  IF holidayName = NoHolidayName
        THEN [outcome |-> "ask holiday name", updates |-> <<>>,
              attributes |-> sessionAttributes]
        ELSE IF existingStatus = "holiday"
        THEN [outcome |-> "already marked", updates |-> <<>>,
              attributes |-> sessionAttributes]
        ELSE [outcome |-> "marked",
              updates |-> <<setDayStatusUpdates(userData, today, "holiday", holidayName)>>,
              attributes |-> sessionAttributes]

\* MarkHolidayIntentHandler.handle from the attendance key on
markHoliday(userData, sessionAttributes, holidayName, date, offset) ==
    LET today == getFormattedDate(date, offset)
        existingStatus == getDayStatus(userData, today)
    IN  IF holidayName = NoHolidayName
        THEN [outcome |-> "ask holiday name", updates |-> <<>>,
              attributes |-> sessionAttributes]
        ELSE IF existingStatus = "holiday"
        THEN [outcome |-> "already marked", updates |-> <<>>,
              attributes |-> sessionAttributes]
        ELSE IF existingStatus # "null"
        THEN [outcome |-> "confirm change", updates |-> <<>>,
              attributes |-> SetAttribute(sessionAttributes, "pendingStatusChange",
                                          [date |-> today, newStatus |-> "holiday",
                                           oldStatus |-> existingStatus,
                                           holidayName |-> holidayName])]
        ELSE [outcome |-> "marked",
              updates |-> <<setDayStatusUpdates(userData, today, "holiday", holidayName)>>,
              attributes |-> sessionAttributes]

MarkHolidayIntent(holidayName) ==
    LET r == markHoliday(getUserData(doc), attrs, holidayName, now, tz)
    IN  /\ doc' = Apply(doc, r.updates)
        /\ attrs' = r.attributes
        /\ last' = [op |-> "MarkHolidayIntent", today |-> getFormattedDate(now, tz),
                    outcome |-> r.outcome, writes |-> Len(r.updates),
                    newStatus |-> "holiday", before |-> attrs]
        /\ UNCHANGED <<now, tz, calls, credentials>>

\* mutant: a Yes turn that goes back to the name step of a creation under way
yesIntentRestartsCreation(userData, sessionAttributes, fails) ==
    IF "pendingStatusChange" \in DOMAIN sessionAttributes
    THEN LET pending == sessionAttributes["pendingStatusChange"]
         IN  IF fails
             THEN [outcome |-> "apology", updates |-> <<>>, attributes |-> sessionAttributes]
             ELSE [outcome |-> "changed",
                   updates |-> <<setDayStatusUpdates(userData, pending.date, pending.newStatus,
                                                     Field(pending, "holidayName", NoHolidayName))>>,
                   attributes |-> DeleteAttributes(sessionAttributes, {"pendingStatusChange"})]
    ELSE IF ~Truthy(sessionAttributes, "inSessionCreation")
    THEN [outcome |-> "ask session name", updates |-> <<>>,
          attributes |-> SetAttribute(SetAttribute(sessionAttributes, "inSessionCreation", TRUE),
                                      "sessionCreationStep", "name")]
    ELSE [outcome |-> "what next", updates |-> <<>>,
          attributes |-> SetAttribute(sessionAttributes, "sessionCreationStep", "name")]

\* mutant: a Yes turn that keeps pendingStatusChange after applying it
yesIntentKeepsPending(userData, sessionAttributes, fails) ==
    IF "pendingStatusChange" \in DOMAIN sessionAttributes
    THEN LET pending == sessionAttributes["pendingStatusChange"]
         IN  IF fails
             THEN [outcome |-> "apology", updates |-> <<>>, attributes |-> sessionAttributes]
             ELSE [outcome |-> "changed",
                   updates |-> <<setDayStatusUpdates(userData, pending.date, pending.newStatus,
                                                     Field(pending, "holidayName", NoHolidayName))>>,
                   attributes |-> sessionAttributes]
    ELSE IF ~Truthy(sessionAttributes, "inSessionCreation")
    THEN [outcome |-> "ask session name", updates |-> <<>>,
          attributes |-> SetAttribute(SetAttribute(sessionAttributes, "inSessionCreation", TRUE),
                                      "sessionCreationStep", "name")]
    ELSE [outcome |-> "what next", updates |-> <<>>, attributes |-> sessionAttributes]

\* YesIntentHandler.handle; fails says whether the setDayStatus call throws
yesIntent(userData, sessionAttributes, fails) ==
    IF "pendingStatusChange" \in DOMAIN sessionAttributes
    THEN LET pending == sessionAttributes["pendingStatusChange"]
         IN  IF fails
             THEN [outcome |-> "apology", updates |-> <<>>, attributes |-> sessionAttributes]
             ELSE [outcome |-> "changed",
                   updates |-> <<setDayStatusUpdates(userData, pending.date, pending.newStatus,
                                                     Field(pending, "holidayName", NoHolidayName))>>,
                   attributes |-> DeleteAttributes(sessionAttributes, {"pendingStatusChange"})]
    ELSE IF ~Truthy(sessionAttributes, "inSessionCreation")
    THEN [outcome |-> "ask session name", updates |-> <<>>,
          attributes |-> SetAttribute(SetAttribute(sessionAttributes, "inSessionCreation", TRUE),
                                      "sessionCreationStep", "name")]
    ELSE [outcome |-> "what next", updates |-> <<>>, attributes |-> sessionAttributes]

YesIntent(fails) ==
    LET r == yesIntent(getUserData(doc), attrs, fails)
    IN  /\ doc' = Apply(doc, r.updates)
        /\ attrs' = r.attributes
        /\ last' = [op |-> "YesIntent", outcome |-> r.outcome, writes |-> Len(r.updates),
                    fails |-> fails, before |-> attrs]
        /\ UNCHANGED <<now, tz, calls, credentials>>

\* mutant: a No turn that leaves the creation flow alone
noIntentKeepsCreation(sessionAttributes) ==
    DeleteAttributes(sessionAttributes, {"pendingStatusChange"})

\* NoIntentHandler.handle: the session attributes it leaves
noIntent(sessionAttributes) ==
    IF Truthy(sessionAttributes, "inSessionCreation")
    THEN DeleteAttributes(sessionAttributes, {"pendingStatusChange"} \cup CreationFields)
    ELSE DeleteAttributes(sessionAttributes, {"pendingStatusChange"})

NoIntent ==
    /\ attrs' = noIntent(attrs)
    /\ last' = [op |-> "NoIntent", outcome |-> "no changes", writes |-> 0, before |-> attrs]
    /\ UNCHANGED <<doc, now, tz, calls, credentials>>

\* mutant: a creation without a name that asks for the start date at once
createSessionSkipsName(sessionAttributes, setAsPreset) ==
    SetShouldSetAsPreset(
        SetAttribute(SetAttribute(sessionAttributes, "inSessionCreation", TRUE),
                     "sessionCreationStep", "startDate"),
        setAsPreset)

\* CreateSessionIntentHandler.handle: the session attributes it leaves
createSession(sessionAttributes, setAsPreset) ==
    SetShouldSetAsPreset(
        SetAttribute(SetAttribute(sessionAttributes, "inSessionCreation", TRUE),
                     "sessionCreationStep", "name"),
        setAsPreset)

CreateSessionIntent(setAsPreset) ==
    /\ attrs' = createSession(attrs, setAsPreset)
    /\ last' = [op |-> "CreateSessionIntent", outcome |-> "ask session name", writes |-> 0,
                setAsPreset |-> setAsPreset, before |-> attrs]
    /\ UNCHANGED <<doc, now, tz, calls, credentials>>

\* mutant: a named creation that waits for the name again
createSessionWithNameAsksName(sessionAttributes, sessionName, setAsPreset) ==
    IF sessionName = NoSlot THEN sessionAttributes
    ELSE SetShouldSetAsPreset(
             SetAttribute(
                 SetAttribute(SetAttribute(sessionAttributes, "inSessionCreation", TRUE),
                              "sessionCreationStep", "name"),
                 "pendingSessionName", sessionName),
             setAsPreset)

\* CreateSessionWithNameIntentHandler.handle: the session attributes it leaves
createSessionWithName(sessionAttributes, sessionName, setAsPreset) ==
    IF sessionName = NoSlot THEN sessionAttributes
    ELSE SetShouldSetAsPreset(
             SetAttribute(
                 SetAttribute(SetAttribute(sessionAttributes, "inSessionCreation", TRUE),
                              "sessionCreationStep", "startDate"),
                 "pendingSessionName", sessionName),
             setAsPreset)

CreateSessionWithNameIntent(sessionName, setAsPreset) ==
    /\ attrs' = createSessionWithName(attrs, sessionName, setAsPreset)
    /\ last' = [op |-> "CreateSessionWithNameIntent",
                outcome |-> IF sessionName = NoSlot THEN "ask session name" ELSE "ask start date",
                writes |-> 0, sessionName |-> sessionName, setAsPreset |-> setAsPreset,
                before |-> attrs]
    /\ UNCHANGED <<doc, now, tz, calls, credentials>>

\* mutant: a date turn that saves the session and stays in the creation flow
dateIntentKeepsFields(userData, sessionAttributes, dateValue, random, createdAt, fails) ==
    LET step == Field(sessionAttributes, "sessionCreationStep", "")
        Unchanged(outcome) ==
            [outcome |-> outcome, updates |-> <<>>, attributes |-> sessionAttributes]
    IN  IF Truthy(sessionAttributes, "inSessionCreation") /\ step = "startDate"
        THEN IF dateValue # NoDate
             THEN [outcome |-> "ask end date", updates |-> <<>>,
                   attributes |-> SetAttribute(SetAttribute(sessionAttributes,
                                                            "pendingStartDate", dateValue),
                                               "sessionCreationStep", "endDate")]
             ELSE Unchanged("reprompt start date")
        ELSE IF Truthy(sessionAttributes, "inSessionCreation") /\ step = "endDate"
        THEN IF dateValue # NoDate
             THEN IF fails THEN Unchanged("apology")
                  ELSE [outcome |-> "created",
                        updates |-> saveSession(userData,
                                                Field(sessionAttributes, "pendingSessionName", NoSlot),
                                                Field(sessionAttributes, "pendingStartDate", NoDate),
                                                dateValue,
                                                Truthy(sessionAttributes, "shouldSetAsPreset"),
                                                random, createdAt).updates,
                        attributes |-> sessionAttributes]
             ELSE Unchanged("reprompt end date")
        ELSE IF dateValue # NoDate THEN Unchanged("echo date")
        ELSE Unchanged("unknown date")

\* mutant: a date turn that moves on to the end date without a start date
dateIntentAdvancesWithoutDate(userData, sessionAttributes, dateValue, random, createdAt, fails) ==
    LET step == Field(sessionAttributes, "sessionCreationStep", "")
        Unchanged(outcome) ==
            [outcome |-> outcome, updates |-> <<>>, attributes |-> sessionAttributes]
    IN  IF Truthy(sessionAttributes, "inSessionCreation") /\ step = "startDate"
        THEN IF dateValue # NoDate
             THEN [outcome |-> "ask end date", updates |-> <<>>,
                   attributes |-> SetAttribute(SetAttribute(sessionAttributes,
                                                            "pendingStartDate", dateValue),
                                               "sessionCreationStep", "endDate")]
             ELSE [outcome |-> "reprompt start date", updates |-> <<>>,
                   attributes |-> SetAttribute(sessionAttributes,
                                               "sessionCreationStep", "endDate")]
        ELSE IF Truthy(sessionAttributes, "inSessionCreation") /\ step = "endDate"
        THEN IF dateValue # NoDate
             THEN IF fails THEN Unchanged("apology")
                  ELSE [outcome |-> "created",
                        updates |-> saveSession(userData,
                                                Field(sessionAttributes, "pendingSessionName", NoSlot),
                                                Field(sessionAttributes, "pendingStartDate", NoDate),
                                                dateValue,
                                                Truthy(sessionAttributes, "shouldSetAsPreset"),
                                                random, createdAt).updates,
                        attributes |-> DeleteAttributes(sessionAttributes, CreationFields)]
             ELSE Unchanged("reprompt end date")
        ELSE IF dateValue # NoDate THEN Unchanged("echo date")
        ELSE Unchanged("unknown date")

\* mutant: a date turn that leaves the creation flow when the save fails
dateIntentForgetsOnFailure(userData, sessionAttributes, dateValue, random, createdAt, fails) ==
    LET step == Field(sessionAttributes, "sessionCreationStep", "")
        Unchanged(outcome) ==
            [outcome |-> outcome, updates |-> <<>>, attributes |-> sessionAttributes]
    IN  IF Truthy(sessionAttributes, "inSessionCreation") /\ step = "startDate"
        THEN IF dateValue # NoDate
             THEN [outcome |-> "ask end date", updates |-> <<>>,
                   attributes |-> SetAttribute(SetAttribute(sessionAttributes,
                                                            "pendingStartDate", dateValue),
                                               "sessionCreationStep", "endDate")]
             ELSE Unchanged("reprompt start date")
        ELSE IF Truthy(sessionAttributes, "inSessionCreation") /\ step = "endDate"
        THEN IF dateValue # NoDate
             THEN IF fails
                  THEN [outcome |-> "apology", updates |-> <<>>,
                        attributes |-> DeleteAttributes(sessionAttributes, CreationFields)]
                  ELSE [outcome |-> "created",
                        updates |-> saveSession(userData,
                                                Field(sessionAttributes, "pendingSessionName", NoSlot),
                                                Field(sessionAttributes, "pendingStartDate", NoDate),
                                                dateValue,
                                                Truthy(sessionAttributes, "shouldSetAsPreset"),
                                                random, createdAt).updates,
                        attributes |-> DeleteAttributes(sessionAttributes, CreationFields)]
             ELSE Unchanged("reprompt end date")
        ELSE IF dateValue # NoDate THEN Unchanged("echo date")
        ELSE Unchanged("unknown date")

\* DateIntentHandler.handle from the attendance key on; fails says whether the
\* saveSession call throws, which the skill's ErrorHandler answers
dateIntent(userData, sessionAttributes, dateValue, random, createdAt, fails) ==
    LET step == Field(sessionAttributes, "sessionCreationStep", "")
        Unchanged(outcome) ==
            [outcome |-> outcome, updates |-> <<>>, attributes |-> sessionAttributes]
    IN  IF Truthy(sessionAttributes, "inSessionCreation") /\ step = "startDate"
        THEN IF dateValue # NoDate
             THEN [outcome |-> "ask end date", updates |-> <<>>,
                   attributes |-> SetAttribute(SetAttribute(sessionAttributes,
                                                            "pendingStartDate", dateValue),
                                               "sessionCreationStep", "endDate")]
             ELSE Unchanged("reprompt start date")
        ELSE IF Truthy(sessionAttributes, "inSessionCreation") /\ step = "endDate"
        THEN IF dateValue # NoDate
             THEN IF fails THEN Unchanged("apology")
                  ELSE [outcome |-> "created",
                        updates |-> saveSession(userData,
                                                Field(sessionAttributes, "pendingSessionName", NoSlot),
                                                Field(sessionAttributes, "pendingStartDate", NoDate),
                                                dateValue,
                                                Truthy(sessionAttributes, "shouldSetAsPreset"),
                                                random, createdAt).updates,
                        attributes |-> DeleteAttributes(sessionAttributes, CreationFields)]
             ELSE Unchanged("reprompt end date")
        ELSE IF dateValue # NoDate THEN Unchanged("echo date")
        ELSE Unchanged("unknown date")

DateIntent(dateValue, random, fails) ==
    LET r == dateIntent(getUserData(doc), attrs, dateValue, random, now, fails)
    IN  /\ doc' = Apply(doc, r.updates)
        /\ attrs' = r.attributes
        /\ last' = [op |-> "DateIntent", outcome |-> r.outcome, writes |-> Len(r.updates),
                    dateValue |-> dateValue, random |-> random, fails |-> fails,
                    before |-> attrs]
        /\ UNCHANGED <<now, tz, calls, credentials>>

\* what the user can say in a conversation
DialogueNames == {NoSlot, <<"F", "a">>}

PresetSlots == {NoSlot, <<"Y", "e", "s">>, <<"n", "o">>}

DialogueDates == {NoDate, <<2023, 1, 2>>, <<2023, 1, 3>>}

\* a new user on Sunday 2023-01-01 or Monday 2023-01-02, in any time zone
InitDialogue ==
    /\ doc = NoDoc
    /\ now \in {Noon(<<2023, 1, 1>>), Noon(<<2023, 1, 2>>)}
    /\ tz \in Offsets
    /\ last = [op |-> "init"]
    /\ steps = 0
    /\ attrs = NoDoc
    /\ calls = NoDoc
    /\ credentials = NoDoc

\* the turns of a conversation, in any order
NextDialogue ==
    \/ Step /\ MarkPresentIntent
    \/ Step /\ MarkAbsentIntent
    \/ \E holidayName \in {NoHolidayName, "Diwali"} : Step /\ MarkHolidayIntent(holidayName)
    \/ \E fails \in BOOLEAN : Step /\ YesIntent(fails)
    \/ Step /\ NoIntent
    \/ \E setAsPreset \in PresetSlots : Step /\ CreateSessionIntent(setAsPreset)
    \/ \E sessionName \in DialogueNames, setAsPreset \in PresetSlots :
           Step /\ CreateSessionWithNameIntent(sessionName, setAsPreset)
    \/ \E dateValue \in DialogueDates, fails \in BOOLEAN :
           Step /\ DateIntent(dateValue, <<"x">>, fails)

SpecDialogue == InitDialogue /\ [][NextDialogue]_vars

(***************************************************************************)
(* The dialogue: properties                                                *)
(***************************************************************************)
\* the status of today as the handlers read it
ExistingToday == getDayStatus(getUserData(doc), Today)

\* the turn leaves the proposed change pending and the store as it was
AwaitsConfirmation(pending) ==
    /\ "pendingStatusChange" \in DOMAIN attrs'
    /\ attrs'["pendingStatusChange"] = pending
    /\ doc' = doc
    /\ last'.writes = 0

\* C21: when today has a status other than the requested one,
\* MarkPresentIntent, MarkAbsentIntent and MarkHolidayIntent set
\* pendingStatusChange to the proposed change and write nothing.
C21_ConflictAwaitsConfirmation ==
    [][/\ (MarkPresentIntent /\ ExistingToday \notin {"null", "present"}) =>
              AwaitsConfirmation([date |-> Today, newStatus |-> "present",
                                  oldStatus |-> ExistingToday])
       /\ (MarkAbsentIntent /\ ExistingToday \notin {"null", "absent"}) =>
              AwaitsConfirmation([date |-> Today, newStatus |-> "absent",
                                  oldStatus |-> ExistingToday])
       /\ (MarkHolidayIntent("Diwali") /\ ExistingToday \notin {"null", "holiday"}) =>
              AwaitsConfirmation([date |-> Today, newStatus |-> "holiday",
                                  oldStatus |-> ExistingToday, holidayName |-> "Diwali"])]_vars

\* C21, amended: MarkPresentIntent and MarkAbsentIntent test for a non-working
\* day first; a turn they reject that way changes nothing, and every other
\* turn that finds a status other than the requested one sets
\* pendingStatusChange to the proposed change and writes nothing.
C21_ConflictAwaitsUnlessRejected ==
    [][/\ (MarkPresentIntent /\ ExistingToday \notin {"null", "present"}) =>
              IF last'.outcome = "non-working day" THEN doc' = doc /\ attrs' = attrs
              ELSE AwaitsConfirmation([date |-> Today, newStatus |-> "present",
                                       oldStatus |-> ExistingToday])
       /\ (MarkAbsentIntent /\ ExistingToday \notin {"null", "absent"}) =>
              IF last'.outcome = "non-working day" THEN doc' = doc /\ attrs' = attrs
              ELSE AwaitsConfirmation([date |-> Today, newStatus |-> "absent",
                                       oldStatus |-> ExistingToday])
       /\ (MarkHolidayIntent("Diwali") /\ ExistingToday \notin {"null", "holiday"}) =>
              AwaitsConfirmation([date |-> Today, newStatus |-> "holiday",
                                  oldStatus |-> ExistingToday, holidayName |-> "Diwali"])]_vars

\* a marking turn has left a change pending and today's status is the old one
C21_Witness ==
    /\ last.op \in {"MarkPresentIntent", "MarkAbsentIntent"}
    /\ last.outcome = "confirm change"
    /\ "pendingStatusChange" \in DOMAIN attrs
    /\ attrs["pendingStatusChange"].date = last.today
    /\ getDayStatus(doc, last.today) = attrs["pendingStatusChange"].oldStatus

\* C22: a Yes turn with a change pending calls setDayStatus with the pending
\* date, newStatus and holidayName and, when the write succeeds, deletes
\* pendingStatusChange; a Yes turn right after such a turn writes nothing.
C22_YesAppliesPendingOnce ==
    [][\A fails \in BOOLEAN :
          /\ (YesIntent(fails) /\ ~fails /\ "pendingStatusChange" \in DOMAIN attrs) =>
                 LET pending == attrs["pendingStatusChange"]
                 IN  /\ doc' = updateUserData(doc,
                                   setDayStatusUpdates(doc, pending.date, pending.newStatus,
                                                       Field(pending, "holidayName", NoHolidayName)))
                     /\ last'.writes = 1
                     /\ "pendingStatusChange" \notin DOMAIN attrs'
          /\ (YesIntent(fails) /\ last.op = "YesIntent" /\ last.outcome = "changed") =>
                 /\ doc' = doc
                 /\ last'.writes = 0]_vars

\* a Yes turn has applied a pending change and the dialogue awaits nothing
C22_Witness ==
    /\ last.op = "YesIntent"
    /\ last.outcome = "changed"
    /\ "pendingStatusChange" \in DOMAIN last.before
    /\ getDayStatus(doc, last.before["pendingStatusChange"].date)
           = last.before["pendingStatusChange"].newStatus
    /\ "pendingStatusChange" \notin DOMAIN attrs

\* C23: a No turn in any dialogue state leaves neither pendingStatusChange nor
\* any session-creation field, and writes nothing to the store.
C23_NoReturnsToIdle ==
    [][NoIntent =>
           /\ DOMAIN attrs' \cap ({"pendingStatusChange"} \cup CreationFields) = {}
           /\ doc' = doc
           /\ last'.writes = 0]_vars

\* a No turn taken with a change pending and a session creation under way
C23_Witness ==
    /\ last.op = "NoIntent"
    /\ "pendingStatusChange" \in DOMAIN last.before
    /\ "pendingSessionName" \in DOMAIN last.before
    /\ attrs = NoDoc

\* the step of the session-creation flow the dialogue is at, "" outside it
CreationStep ==
    IF Truthy(attrs, "inSessionCreation") THEN Field(attrs, "sessionCreationStep", "") ELSE ""

\* the slot value says yes
SaysYes(setAsPreset) ==
    toLowerCase(setAsPreset) \in {<<"y", "e", "s">>, <<"t", "r", "u", "e">>}

\* C24: CreateSessionIntent leaves inSessionCreation set and the step at name;
\* CreateSessionWithNameIntent with a name leaves inSessionCreation set, the
\* step at startDate and pendingSessionName the given name; both leave
\* shouldSetAsPreset true exactly when the slot says yes, and write nothing.
C24_CreationStarts ==
    [][\A setAsPreset \in PresetSlots :
          /\ CreateSessionIntent(setAsPreset) =>
                 /\ attrs'["inSessionCreation"] = TRUE
                 /\ attrs'["sessionCreationStep"] = "name"
                 /\ Truthy(attrs', "shouldSetAsPreset") = SaysYes(setAsPreset)
                 /\ doc' = doc
                 /\ last'.writes = 0
          /\ \A sessionName \in DialogueNames \ {NoSlot} :
                 CreateSessionWithNameIntent(sessionName, setAsPreset) =>
                     /\ attrs'["inSessionCreation"] = TRUE
                     /\ attrs'["sessionCreationStep"] = "startDate"
                     /\ attrs'["pendingSessionName"] = sessionName
                     /\ Truthy(attrs', "shouldSetAsPreset") = SaysYes(setAsPreset)
                     /\ doc' = doc
                     /\ last'.writes = 0]_vars

\* a named creation started from the idle dialogue, asking for a preset
C24_Witness ==
    /\ last.op = "CreateSessionWithNameIntent"
    /\ last.before = NoDoc
    /\ last.sessionName = <<"F", "a">>
    /\ attrs["sessionCreationStep"] = "startDate"
    /\ attrs["pendingSessionName"] = <<"F", "a">>
    /\ Truthy(attrs, "shouldSetAsPreset")

\* C25: a date at the startDate step becomes pendingStartDate, moves the flow
\* to endDate and writes nothing; a date at the endDate step makes the one
\* write of saveSession(pendingSessionName, pendingStartDate, date,
\* shouldSetAsPreset), whose session is then stored with these values, and
\* removes every creation field; no other turn of the dialogue changes the
\* stored sessions.
C25_DatesCompleteCreation ==
    [][/\ \A dateValue \in DialogueDates \ {NoDate}, fails \in BOOLEAN :
              DateIntent(dateValue, <<"x">>, fails) =>
                  /\ CreationStep = "startDate" =>
                         /\ attrs'["pendingStartDate"] = dateValue
                         /\ attrs'["sessionCreationStep"] = "endDate"
                         /\ attrs'["inSessionCreation"] = TRUE
                         /\ doc' = doc
                         /\ last'.writes = 0
                  /\ (CreationStep = "endDate" /\ ~fails) =>
                         LET saved == saveSession(getUserData(doc),
                                                  attrs["pendingSessionName"],
                                                  attrs["pendingStartDate"], dateValue,
                                                  Truthy(attrs, "shouldSetAsPreset"),
                                                  <<"x">>, now)
                         IN  /\ last'.writes = 1
                             /\ doc' = updateUserData(doc, saved.updates[1])
                             /\ \E i \in 1..Len(doc'["sessions"]) :
                                    LET s == doc'["sessions"][i]
                                    IN  /\ s.name = attrs["pendingSessionName"]
                                        /\ s.startDate = attrs["pendingStartDate"]
                                        /\ s.endDate = dateValue
                                        /\ s.isSelected = Truthy(attrs, "shouldSetAsPreset")
                             /\ DOMAIN attrs' \cap CreationFields = {}
       /\ Field(doc', "sessions", <<>>) # Field(doc, "sessions", <<>>) =>
              /\ CreationStep = "endDate"
              /\ last'.op = "DateIntent"
              /\ last'.outcome = "created"]_vars

\* a creation completed by its end date: the session is stored, flow is over
C25_Witness ==
    /\ last.op = "DateIntent"
    /\ last.outcome = "created"
    /\ last.before["sessionCreationStep"] = "endDate"
    /\ Len(Field(doc, "sessions", <<>>)) = 1
    /\ doc["sessions"][1].name = last.before["pendingSessionName"]
    /\ doc["sessions"][1].endDate = last.dateValue
    /\ DOMAIN attrs \cap CreationFields = {}

\* C26: a date turn without a date, at the startDate or the endDate step,
\* leaves every session attribute and the stored document as they were.
C26_MissingDateChangesNothing ==
    [][\A fails \in BOOLEAN :
          (DateIntent(NoDate, <<"x">>, fails) /\ CreationStep \in {"startDate", "endDate"}) =>
              /\ attrs' = attrs
              /\ doc' = doc
              /\ last'.writes = 0]_vars

\* a date turn without a date at the endDate step, a status change pending
C26_Witness ==
    /\ last.op = "DateIntent"
    /\ last.dateValue = NoDate
    /\ last.outcome = "reprompt end date"
    /\ attrs = last.before
    /\ {"pendingStatusChange", "pendingStartDate", "pendingSessionName"} \subseteq DOMAIN attrs

\* C27: a Yes turn with no change pending starts a creation at the name step
\* when none is under way, writing nothing, and otherwise leaves the step and
\* the pending creation fields as they were.
C27_BareYes ==
    [][\A fails \in BOOLEAN :
          (YesIntent(fails) /\ "pendingStatusChange" \notin DOMAIN attrs) =>
              /\ doc' = doc
              /\ last'.writes = 0
              /\ IF ~Truthy(attrs, "inSessionCreation")
                 THEN /\ attrs'["inSessionCreation"] = TRUE
                      /\ attrs'["sessionCreationStep"] = "name"
                 ELSE \A a \in CreationFields :
                          /\ (a \in DOMAIN attrs') = (a \in DOMAIN attrs)
                          /\ a \in DOMAIN attrs => attrs'[a] = attrs[a]]_vars

\* a Yes turn in the idle dialogue started a creation
C27_Witness ==
    /\ last.op = "YesIntent"
    /\ last.outcome = "ask session name"
    /\ last.before = NoDoc
    /\ attrs["inSessionCreation"] = TRUE
    /\ attrs["sessionCreationStep"] = "name"

\* C28: when the store call of a transition fails the turn ends with the
\* apology and neither the session attributes nor the document change: the
\* Yes turn keeps pendingStatusChange and the day's status, the date turn at
\* the endDate step keeps the step, the pending fields and the sessions.
C28_FailureKeepsDialogue ==
    [][/\ (YesIntent(TRUE) /\ "pendingStatusChange" \in DOMAIN attrs) =>
              /\ last'.outcome = "apology"
              /\ attrs' = attrs
              /\ doc' = doc
       /\ \A dateValue \in DialogueDates \ {NoDate} :
              (DateIntent(dateValue, <<"x">>, TRUE) /\ CreationStep = "endDate") =>
                  /\ last'.outcome = "apology"
                  /\ attrs' = attrs
                  /\ doc' = doc]_vars

\* a failed save at the endDate step: the flow still awaits the end date
C28_Witness ==
    /\ last.op = "DateIntent"
    /\ last.outcome = "apology"
    /\ last.fails
    /\ attrs = last.before
    /\ attrs["sessionCreationStep"] = "endDate"
    /\ {"pendingSessionName", "pendingStartDate"} \subseteq DOMAIN attrs

(***************************************************************************)
(* The store under all its writers                                         *)
(***************************************************************************)
\* the session names of the store runs
StoreNames == {<<"F", "a">>, <<"f", "a", "!">>}

\* a document of a user who has set a weekly day off elsewhere, or none
InitStore ==
    /\ doc \in {NoDoc, [weeklyDaysOff |-> <<2>>]}
    /\ now = 0
    /\ last = [op |-> "init"]
    /\ steps = 0
    /\ attrs = NoDoc
    /\ calls = NoDoc
    /\ credentials = NoDoc
    /\ tz = 0

\* any sequence of the four operations that write the attendance document
NextStore ==
    \/ \E date \in Dates, status \in Statuses :
           /\ Step
           /\ SetDayStatus(date, status,
                           IF status = "holiday" THEN "Diwali" ELSE NoHolidayName)
    \/ \E sessionName \in StoreNames, setAsPreset \in BOOLEAN :
           Step /\ SaveSession(sessionName, 1, 2, setAsPreset, <<"x">>, now)
    \/ \E sessionIdentifier \in StoreNames :
           Step /\ SetAlexaPresetSession(sessionIdentifier)
    \/ Step /\ ClearAlexaPresetSession

SpecStore == InitStore /\ [][NextStore]_vars

\* the step leaves each of the fields as it was, absent or with its value
Frame(fields) ==
    \A f \in fields :
        /\ (f \in DOMAIN doc') = (f \in DOMAIN doc)
        /\ f \in DOMAIN doc => doc'[f] = doc[f]

\* C30: setDayStatus leaves sessions and weeklyDaysOff as they were, and the
\* status of every date other than its own; saveSession, setAlexaPresetSession
\* and clearAlexaPresetSession leave records, holidays, notEnrolled and
\* weeklyDaysOff as they were.
C30_WritesTouchOnlyTheirFields ==
    [][/\ last'.op = "setDayStatus" =>
              /\ Frame({"sessions", "weeklyDaysOff"})
              /\ \A d \in Dates \ {last'.date} :
                     getDayStatus(doc', d) = getDayStatus(doc, d)
       /\ last'.op \in {"saveSession", "setAlexaPresetSession", "clearAlexaPresetSession"} =>
              Frame({"records", "holidays", "notEnrolled", "weeklyDaysOff"})]_vars

\* a setDayStatus call on a document that has sessions, a weekly day off and
\* a status for another date
C30_Witness ==
    /\ last.op = "setDayStatus"
    /\ getDayStatus(doc, last.date) = last.status
    /\ Len(Field(doc, "sessions", <<>>)) > 0
    /\ "weeklyDaysOff" \in DOMAIN doc
    /\ \E d \in Dates \ {last.date} : getDayStatus(doc, d) # "null"

(***************************************************************************)
(* Two saveSession calls in flight                                         *)
(***************************************************************************)
\* the two requests of one user
Requests == {1, 2}

\* both calls are about to start, for two names that differ in more than case
InitRace ==
    /\ doc = NoDoc
    /\ now = 0
    /\ last = [op |-> "init"]
    /\ steps = 0
    /\ attrs = NoDoc
    /\ tz = 0
    /\ credentials = NoDoc
    /\ \E names \in Names \X Names, randoms \in Randoms \X Randoms,
          presets \in BOOLEAN \X BOOLEAN :
           /\ toLowerCase(names[1]) # toLowerCase(names[2])
           /\ calls = [r \in Requests |->
                          [pc |-> "start", sessionName |-> names[r],
                           random |-> randoms[r], setAsPreset |-> presets[r]]]

\* saveSession up to the return of getUserData: the call holds what it read
\* and builds sessionData; after counts the calls that had written by then
ReadUserData(request) ==
    /\ calls[request].pc = "start"
    /\ calls' = [calls EXCEPT ![request] =
                     [pc |-> "read", sessionName |-> calls[request].sessionName,
                      random |-> calls[request].random,
                      setAsPreset |-> calls[request].setAsPreset,
                      userData |-> getUserData(doc), createdAt |-> now,
                      after |-> Cardinality({r \in Requests : calls[r].pc = "done"})]]
    /\ last' = [op |-> "getUserData", request |-> request]
    /\ UNCHANGED <<doc, now, steps, attrs, tz, credentials>>

\* saveSession from there on: updateUserData with the list it computed from
\* what it read
WriteUserData(request) ==
    /\ calls[request].pc = "read"
    /\ LET call == calls[request]
           r == saveSession(call.userData, call.sessionName, 1, 2, call.setAsPreset,
                            call.random, call.createdAt)
       IN  /\ doc' = Apply(doc, r.updates)
           /\ last' = [op |-> "updateUserData", request |-> request,
                       code |-> r.sessionData.code]
    /\ calls' = [calls EXCEPT ![request].pc = "done"]
    /\ UNCHANGED <<now, steps, attrs, tz, credentials>>

NextRace ==
    \/ \E request \in Requests : ReadUserData(request)
    \/ \E request \in Requests : WriteUserData(request)
    \/ Step /\ Tick

SpecRace == InitRace /\ [][NextRace]_vars

\* both calls have returned
BothDone == \A r \in Requests : calls[r].pc = "done"

\* one call read only after the other had written
Sequential == \E r \in Requests : calls[r].after = 1

\* the stored list has a session of the name of the call
Kept(request) ==
    \E i \in 1..Len(Field(doc, "sessions", <<>>)) :
        doc["sessions"][i].name = calls[request].sessionName

\* C29: once the two calls have run one after the other, the stored list has
\* the sessions of both names.
C29_SequentialKeepsBoth ==
    (BothDone /\ Sequential) => \A r \in Requests : Kept(r)

(***************************************************************************)
(* Marking and confirming while time passes                                *)
(***************************************************************************)
\* the marking intents, Yes and No, in any order, on a document whose
\* weeklyDaysOff stays what it was
NextConfirm ==
    \/ Step /\ MarkPresentIntent
    \/ Step /\ MarkAbsentIntent
    \/ \E holidayName \in {NoHolidayName, "Diwali"} : Step /\ MarkHolidayIntent(holidayName)
    \/ \E fails \in BOOLEAN : Step /\ YesIntent(fails)
    \/ Step /\ NoIntent
    \/ Step /\ Tick

SpecConfirm == InitMark /\ [][NextConfirm]_vars

\* a marking turn
MarkOps == {"MarkPresentIntent", "MarkAbsentIntent", "MarkHolidayIntent"}

C32_OneDialogueState ==
    ~("pendingStatusChange" \in DOMAIN attrs /\ Truthy(attrs, "inSessionCreation"))

\* the dates that have an entry in the document
DatesOf(userData) ==
    DOMAIN Field(userData, "records", NoRecords)
        \cup {Field(userData, "holidays", <<>>)[i].date :
                  i \in 1..Len(Field(userData, "holidays", <<>>))}
        \cup {Field(userData, "notEnrolled", <<>>)[i] :
                  i \in 1..Len(Field(userData, "notEnrolled", <<>>))}

\* C33: the status of a date that has one changes only in a Yes turn taken
\* while pendingStatusChange is set for that date; a marking turn writes only
\* when today has no status, and one that asks for the status today has
\* leaves the store and the session attributes as they were.
C33_ChangeOnlyThroughYes ==
    [][/\ \A d \in DatesOf(doc) :
              getDayStatus(doc', d) # getDayStatus(doc, d) =>
                  /\ last'.op = "YesIntent"
                  /\ "pendingStatusChange" \in DOMAIN attrs
                  /\ attrs["pendingStatusChange"].date = d
       /\ (last'.op \in MarkOps /\ last' # last) =>
              /\ last'.writes > 0 => ExistingToday = "null"
              /\ ExistingToday = last'.newStatus => doc' = doc /\ attrs' = attrs]_vars

\* a Yes turn has changed the status of the pending date, which had one
C33_Witness ==
    /\ last.op = "YesIntent"
    /\ last.outcome = "changed"
    /\ last.before["pendingStatusChange"].oldStatus \in Statuses
    /\ getDayStatus(doc, last.before["pendingStatusChange"].date)
           = last.before["pendingStatusChange"].newStatus
    /\ last.before["pendingStatusChange"].newStatus
           # last.before["pendingStatusChange"].oldStatus
    /\ Cardinality(DatesOf(doc)) > 1

\* C34: no two sessions of the stored list have the same code.
C34_CodesDistinct ==
    \A i \in 1..Len(Sessions), j \in 1..Len(Sessions) :
        i # j => Sessions[i].code # Sessions[j].code

\* C35: no two sessions of the stored list have names that are equal when
\* case is ignored.
C35_NamesDistinct ==
    \A i \in 1..Len(Sessions), j \in 1..Len(Sessions) :
        i # j => toLowerCase(Sessions[i].name) # toLowerCase(Sessions[j].name)

\* C36: at the startDate and endDate steps pendingSessionName is set, at the
\* endDate step pendingStartDate is set too; the flow goes from the name step
\* to another step through CreateSessionWithNameIntent only, and a date turn
\* at the name step leaves the session attributes as they were.
C36_StepsHaveTheirFields ==
    [][/\ CreationStep \in {"startDate", "endDate"} => "pendingSessionName" \in DOMAIN attrs
       /\ CreationStep = "endDate" => "pendingStartDate" \in DOMAIN attrs
       /\ (CreationStep = "name" /\ Truthy(attrs', "inSessionCreation")
                                 /\ attrs'["sessionCreationStep"] # "name") =>
              last'.op = "CreateSessionWithNameIntent"
       /\ \A dateValue \in DialogueDates, fails \in BOOLEAN :
              (DateIntent(dateValue, <<"x">>, fails) /\ CreationStep = "name") =>
                  /\ attrs' = attrs
                  /\ doc' = doc
       /\ \A dateValue \in DialogueDates :
              (DateIntent(dateValue, <<"x">>, FALSE) /\ last'.outcome = "created") =>
                  /\ attrs["pendingSessionName"] # NoSlot
                  /\ attrs["pendingStartDate"] # NoDate]_vars

\* a creation awaits its end date, with the name and the start date it was
\* given
C36_Witness ==
    /\ last.op = "DateIntent"
    /\ last.outcome = "ask end date"
    /\ attrs["sessionCreationStep"] = "endDate"
    /\ attrs["pendingSessionName"] = <<"F", "a">>
    /\ attrs["pendingStartDate"] = last.dateValue
    /\ last.dateValue # NoDate

\* C37: every date that has a record, present or absent, is a working day of
\* the calendar: not a Sunday and not a weekday of weeklyDaysOff.
C37_RecordsOnWorkingDays ==
    \A d \in DOMAIN Field(doc, "records", NoRecords) :
        /\ DayOfWeek(d) # 0
        /\ DayOfWeek(d) \notin DaysOff

(***************************************************************************)
(* The session manager under concurrent requests                           *)
(***************************************************************************)
\* the calls a request can make: saveSession, setAlexaPresetSession and
\* clearAlexaPresetSession with their arguments
PresetCalls ==
    [op : {"saveSession"}, sessionName : StoreNames, random : Randoms,
     setAsPreset : BOOLEAN]
        \cup [op : {"setAlexaPresetSession"}, sessionIdentifier : StoreNames]
        \cup [op : {"clearAlexaPresetSession"}]

\* no sessions yet and no call in flight
InitPresets ==
    /\ doc = NoDoc
    /\ now = 0
    /\ last = [op |-> "init"]
    /\ steps = 0
    /\ attrs = NoDoc
    /\ tz = 0
    /\ credentials = NoDoc
    /\ calls = [r \in Requests |-> [pc |-> "done"]]

\* a request starts a call, which runs up to the return of getUserData
ReadSessions(request, call) ==
    /\ calls[request].pc = "done"
    /\ calls' = [calls EXCEPT ![request] =
                     [pc |-> "read", call |-> call, userData |-> getUserData(doc),
                      createdAt |-> now]]
    /\ last' = [op |-> "getUserData", request |-> request]
    /\ UNCHANGED <<doc, now, attrs, tz, credentials>>

\* the updates the call writes, computed from what it read
UpdatesOf(inFlight) ==
    IF inFlight.call.op = "saveSession"
    THEN saveSession(inFlight.userData, inFlight.call.sessionName, 1, 2,
                     inFlight.call.setAsPreset, inFlight.call.random,
                     inFlight.createdAt).updates
    ELSE IF inFlight.call.op = "setAlexaPresetSession"
    THEN setAlexaPresetSession(inFlight.userData, inFlight.call.sessionIdentifier).updates
    ELSE clearAlexaPresetSession(inFlight.userData).updates

\* the call goes on to its updateUserData, if it has one, and returns; stale
\* says that the document is no longer the one the call read
WriteSessions(request) ==
    /\ calls[request].pc = "read"
    /\ doc' = Apply(doc, UpdatesOf(calls[request]))
    /\ last' = [op |-> "updateUserData", request |-> request,
                call |-> calls[request].call.op,
                writes |-> Len(UpdatesOf(calls[request])),
                stale |-> calls[request].userData # getUserData(doc)]
    /\ calls' = [calls EXCEPT ![request] = [pc |-> "done"]]
    /\ UNCHANGED <<now, steps, attrs, tz, credentials>>

\* up to MaxSteps calls of the two requests, interleaved in any way
NextPresets ==
    \/ \E request \in Requests, call \in PresetCalls :
           Step /\ ReadSessions(request, call)
    \/ \E request \in Requests : WriteSessions(request)

SpecPresets == InitPresets /\ [][NextPresets]_vars

\* C38: under every interleaving of the reads and writes of concurrent
\* saveSession, setAlexaPresetSession and clearAlexaPresetSession calls, a
\* stored list whose codes are pairwise distinct has at most one session
\* with isSelected = true.
C38_AtMostOnePresetUnderRaces ==
    C34_CodesDistinct => Cardinality(Selected(Sessions)) <= 1

\* a call has written over a document that had changed since it read it, and
\* the list has several sessions, distinct codes and one preset
C38_Witness ==
    /\ last.op = "updateUserData"
    /\ last.stale
    /\ last.writes = 1
    /\ Len(Sessions) > 1
    /\ C34_CodesDistinct
    /\ Cardinality(Selected(Sessions)) = 1

(***************************************************************************)
(* The mapping from the Alexa user to the attendance key                   *)
(***************************************************************************)
\* the Alexa user of the runs and the id of their credentials document,
\* `alexa-${alexaUserId}`
AlexaUserId == "amzn1.ask.account.A"

AlexaDocId(alexaUserId) == <<"alexa-", alexaUserId>>

\* null, for a profile, an e-mail address, a Google uid and a shared key
NoProfile == <<>>

NoEmail == ""

NoUid == <<>>

NoKey == <<>>

\* the profiles getAlexaUserProfile returns: null when the request fails
Profiles == {NoProfile, [email |-> "a@example.com", name |-> "A"]}

\* `key-${Date.now()}-${Math.random().toString(36).substring(2, 11)}`
GenerateKey(createdAt, random) == <<"key-", createdAt, random>>

\* the id of the credentials document of a user of the web application, a
\* uid without prefix
GoogleUid == <<"", "google-1">>

\* the credentials document of a user of the web application
GoogleUser == [email |-> "a@example.com", name |-> "A", key |-> <<"key-", 0, <<"g">>>>]

\* getExistingAlexaUser
getExistingAlexaUser(collection, alexaUserId) ==
    IF AlexaDocId(alexaUserId) \in DOMAIN collection
    THEN [exists |-> TRUE, key |-> collection[AlexaDocId(alexaUserId)].key]
    ELSE [exists |-> FALSE, key |-> NoKey]

\* findGoogleUserByEmail: the uid of a document with the e-mail address,
\* null when there is none
findGoogleUserByEmail(collection, email) ==
    LET found == {uid \in DOMAIN collection : collection[uid].email = email}
    IN  IF found = {} THEN NoUid ELSE CHOOSE uid \in found : TRUE

\* createAlexaUserDocument: the collection after its set(), which replaces
\* the document, and the key it returns
createAlexaUserDocument(collection, alexaUserId, alexaProfile, linkedGoogleUid, sharedKey, generated, createdAt) ==
    LET userKey == IF sharedKey # NoKey THEN sharedKey ELSE generated
        alexaUserData ==
            [alexaUserId |-> alexaUserId,
             email |-> IF alexaProfile = NoProfile THEN NoEmail ELSE alexaProfile.email,
             name |-> IF alexaProfile = NoProfile THEN "Alexa User" ELSE alexaProfile.name,
             type |-> "alexa",
             key |-> userKey,
             linkedGoogleUid |-> linkedGoogleUid,
             mappedToGoogle |-> linkedGoogleUid # NoUid,
             createdAt |-> createdAt]
    IN  [collection |-> [id \in DOMAIN collection \cup {AlexaDocId(alexaUserId)} |->
                            IF id = AlexaDocId(alexaUserId) THEN alexaUserData
                            ELSE collection[id]],
         userKey |-> userKey]

\* findOrCreateUserMapping: the key it returns and the collection it leaves.
\* readFails, writeFails and fallbackFails say which store calls throw: the
\* read of getExistingAlexaUser, the set() of the try block and the set() of
\* the catch block, whose failure the function rethrows
findOrCreateUserMapping(collection, alexaUserId, alexaProfile, readFails, writeFails, fallbackFails, generated, createdAt) ==
    LET existingAlexa == getExistingAlexaUser(collection, alexaUserId)
        alexaEmail == IF alexaProfile = NoProfile THEN NoEmail ELSE alexaProfile.email
        googleUser == IF alexaEmail = NoEmail THEN NoUid
                      ELSE findGoogleUserByEmail(collection, alexaEmail)
        linked == createAlexaUserDocument(collection, alexaUserId, alexaProfile, googleUser,
                                          IF googleUser = NoUid THEN NoKey
                                          ELSE collection[googleUser].key,
                                          generated, createdAt)
        fallback == createAlexaUserDocument(collection, alexaUserId, NoProfile, NoUid, NoKey,
                                            generated, createdAt)
        Caught == IF fallbackFails
                  THEN [outcome |-> "error", key |-> NoKey, collection |-> collection]
                  ELSE [outcome |-> "fallback", key |-> fallback.userKey,
                        collection |-> fallback.collection]
    IN  IF readFails THEN Caught
        ELSE IF existingAlexa.exists
        THEN [outcome |-> "existing", key |-> existingAlexa.key, collection |-> collection]
        ELSE IF writeFails THEN Caught
        ELSE [outcome |-> "created", key |-> linked.userKey, collection |-> linked.collection]

FindOrCreateUserMapping(alexaProfile, readFails, writeFails, fallbackFails, random) ==
    LET r == findOrCreateUserMapping(credentials, AlexaUserId, alexaProfile, readFails,
                                     writeFails, fallbackFails,
                                     GenerateKey(now, random), now)
    IN  /\ credentials' = r.collection
        /\ last' = [op |-> "findOrCreateUserMapping", outcome |-> r.outcome, key |-> r.key,
                    readFails |-> readFails,
                    existed |-> AlexaDocId(AlexaUserId) \in DOMAIN credentials]
        /\ UNCHANGED <<doc, now, attrs, tz, calls>>

\* the user has not spoken to the skill yet; they may have an account of the
\* web application
InitMapping ==
    /\ doc = NoDoc
    /\ now = 0
    /\ last = [op |-> "init"]
    /\ steps = 0
    /\ attrs = NoDoc
    /\ tz = 0
    /\ calls = NoDoc
    /\ credentials \in {NoDoc, [uid \in {GoogleUid} |-> GoogleUser]}

\* requests of the user, each resolving the key, while time passes
NextMapping ==
    \/ \E alexaProfile \in Profiles, readFails \in BOOLEAN, writeFails \in BOOLEAN,
          fallbackFails \in BOOLEAN, random \in Randoms :
           Step /\ FindOrCreateUserMapping(alexaProfile, readFails, writeFails,
                                           fallbackFails, random)
    \/ Step /\ Tick

SpecMapping == InitMapping /\ [][NextMapping]_vars

\* C39: once the credentials document of the Alexa user exists, every call
\* of findOrCreateUserMapping, a call whose read fails included, leaves the
\* credentials collection as it was and, when it returns, returns the key
\* stored in that document.
C39_MappingKeepsKey ==
    [][\A alexaProfile \in Profiles, readFails \in BOOLEAN, writeFails \in BOOLEAN,
          fallbackFails \in BOOLEAN, random \in Randoms :
           (/\ FindOrCreateUserMapping(alexaProfile, readFails, writeFails,
                                       fallbackFails, random)
            /\ AlexaDocId(AlexaUserId) \in DOMAIN credentials) =>
               /\ credentials' = credentials
               /\ last'.outcome # "error" =>
                      last'.key = credentials[AlexaDocId(AlexaUserId)].key]_vars

====
